---- MODULE Spec2Model ----
(***************************************************************************)
(* Model of AuthProviderConnector: the internal JWT codec                  *)
(* (application/jwt_service.py), the Auth0 identity reconciliation         *)
(* (infrastructure/auth0_client.py), the PostgreSQL user repository        *)
(* (infrastructure/repository.py, infrastructure/model.py), the User       *)
(* aggregate (domain/entities.py) and the Callback, RefreshToken and       *)
(* GetAuthenticatedUser use cases (application/usecase/).                  *)
(***************************************************************************)
EXTENDS Integers, Sequences, FiniteSets, TLC

(***************************************************************************)
(* Bounds of the model                                                     *)
(***************************************************************************)
\* number of clock advances explored
MaxTicks == 2
\* number of internal tokens kept in circulation
MaxTokens == 2
\* number of distinct uuid4() values (user ids and linked-account row ids)
MaxIds == 6
\* number of callbacks started in one behaviour
MaxCallbacks == 3
\* number of repository saves started in one behaviour
MaxSaves == 3
\* number of add_linked_account calls a caller makes on one aggregate
MaxLinkCalls == 3
\* number of refreshes a client chains after its first one
MaxRefreshes == 2
\* number of list operations a caller makes on one list returned by
\* User.linked_accounts
MaxListOps == 2
\* number of Container instances built in one behaviour
MaxContainers == 3
\* number of create_container / get_container calls in one behaviour
MaxContainerCalls == 4

(***************************************************************************)
(* Settings (config.py)                                                    *)
(***************************************************************************)
ACCESS_TOKEN_EXPIRATION_MINUTES == 15
REFRESH_TOKEN_EXPIRATION_DAYS == 7
\* timedelta(minutes=..) and timedelta(days=..) in seconds
AccessLifetime == ACCESS_TOKEN_EXPIRATION_MINUTES * 60
RefreshLifetime == REFRESH_TOKEN_EXPIRATION_DAYS * 86400
\* f"{settings.api_base_url}{settings.base_redirect_path}"
ServiceUrl == "http://localhost:8000"
\* the same expression evaluated by a deployment with ENVIRONMENT=production
OtherServiceUrl == "http://localhost:8000/backend"
\* algorithms of the internal tokens and of the provider's ID tokens
INTERNAL_JWT_ALGORITHM == "HS256"
AUTH0_ALGORITHM == "RS256"
\* the two signing secrets (their defaults)
settings ==
    [ACCESS_TOKEN_SECRET_KEY |->
         "your-access-token-secret-key-change-in-production",
     REFRESH_TOKEN_SECRET_KEY |->
         "your-refresh-token-secret-key-change-in-production"]

VARIABLES
    now,        \* wall clock, seconds
    tz,         \* local time zone of the process
    ticks,      \* clock advances so far
    tokens,     \* internal tokens issued so far, with what they were issued for
    last,       \* outcome of the verification made by the latest step, if any
    users,      \* committed rows of table users
    accounts,   \* committed rows of table linked_accounts
    started,    \* callbacks / saves started so far
    completed,  \* (sub, user id) of every callback that returned tokens
    pc,         \* per request: position in its handler
    req,        \* per request: local variables of its handler
    di          \* module infrastructure.di: the global _container, the
                \* containers built so far, the calls answered so far

\* what the request handlers leave alone
jwtVars == <<now, ticks, tokens, last, tz, di>>
storeVars == <<users, accounts, started, completed, pc, req>>
vars == <<now, tz, ticks, tokens, last, users, accounts,
          started, completed, pc, req, di>>

(***************************************************************************)
(* PyJWT: jwt.encode / jwt.decode as used by jwt_service.py                *)
(***************************************************************************)
\* str(uuid): the text form of a user id, distinct for distinct ids
str_of_uuid(id) == <<"uuid", id>>
Subjects == {str_of_uuid(1), str_of_uuid(2)}
TokenTypes == {"access", "refresh"}

\* HMAC over the payload under a key: equal only for equal key and payload
Sign(key, payload) == <<key, payload>>

jwt_encode(payload, key) ==
    [wellformed |-> TRUE, alg |-> INTERNAL_JWT_ALGORITHM, payload |-> payload,
     sig |-> Sign(key, payload)]

\* a string that is not three base64url segments
GarbageToken ==
    [wellformed |-> FALSE, alg |-> "",
     payload |-> [sub |-> <<>>, iat |-> 0, exp |-> 0, iss |-> "", aud |-> "",
                  type |-> ""],
     sig |-> <<"", "">>]

NoPayload == [sub |-> <<>>, iat |-> 0, exp |-> 0, iss |-> "", aud |-> "",
              type |-> ""]

\* jwt.decode(token, key, algorithms, audience, issuer): the PyJWT exception
\* raised, or "none" with the payload.  Structure first, then the header's
\* alg against the allowed algorithms, then the signature,
\* then exp (expired from the second exp on), iss, aud.
jwt_decode(token, key, algorithms, audience, issuer, t) ==
    IF ~token.wellformed
      THEN [exc |-> "DecodeError", payload |-> NoPayload]
    ELSE IF token.alg \notin algorithms
      THEN [exc |-> "InvalidAlgorithmError", payload |-> NoPayload]
    ELSE IF token.sig # Sign(key, token.payload)
      THEN [exc |-> "InvalidSignatureError", payload |-> NoPayload]
    ELSE IF token.payload.exp <= t
      THEN [exc |-> "ExpiredSignatureError", payload |-> NoPayload]
    ELSE IF token.payload.iss # issuer
      THEN [exc |-> "InvalidIssuerError", payload |-> NoPayload]
    ELSE IF token.payload.aud # audience
      THEN [exc |-> "InvalidAudienceError", payload |-> NoPayload]
    ELSE [exc |-> "none", payload |-> token.payload]

(***************************************************************************)
(* datetime: naive local datetimes as jwt_service.py uses them.  A zone    *)
(* has one UTC offset before the instant `at` and one from it on; times    *)
(* are whole seconds since the epoch.                                      *)
(***************************************************************************)
utcoffset(zone, u) == IF u < zone.at THEN zone.before ELSE zone.after

\* datetime.now(): the local wall time of instant u; fold marks the second
\* pass through wall times that a backward transition repeats
datetime_now(zone, u) ==
    [wall |-> u + utcoffset(zone, u),
     fold |-> IF u >= zone.at /\ u < zone.at + (zone.before - zone.after)
                THEN 1 ELSE 0]

\* dt + timedelta(seconds): wall-clock arithmetic, fold is reset
plus_timedelta(dt, seconds) == [wall |-> dt.wall + seconds, fold |-> 0]

\* dt.timestamp() of a naive datetime: the instant whose local wall time is
\* dt; fold chooses between the two readings of a repeated or skipped time
timestamp(zone, dt) ==
    LET u1 == dt.wall - zone.before
        u2 == dt.wall - zone.after
        ok1 == u1 < zone.at
        ok2 == u2 >= zone.at
    IN IF ok1 = ok2 THEN (IF dt.fold = 0 THEN u1 ELSE u2)
       ELSE IF ok1 THEN u1 ELSE u2

(***************************************************************************)
(* jwt_service.py                                                          *)
(***************************************************************************)
create_access_token(token_payload, t) ==
    jwt_encode([sub |-> token_payload.user_id,
                iat |-> timestamp(tz, datetime_now(tz, t)),
                exp |-> timestamp(tz, plus_timedelta(datetime_now(tz, t),
                                                     AccessLifetime)),
                iss |-> ServiceUrl,
                aud |-> ServiceUrl,
                type |-> "access"],
               settings.ACCESS_TOKEN_SECRET_KEY)

\* create_refresh_token signing with the access secret
create_refresh_token_access_secret(token_payload, t) ==
    jwt_encode([sub |-> token_payload.user_id,
                iat |-> t,
                exp |-> t + RefreshLifetime,
                iss |-> ServiceUrl,
                aud |-> ServiceUrl,
                type |-> "refresh"],
               settings.ACCESS_TOKEN_SECRET_KEY)

create_refresh_token(token_payload, t) ==
    jwt_encode([sub |-> token_payload.user_id,
                iat |-> timestamp(tz, datetime_now(tz, t)),
                exp |-> timestamp(tz, plus_timedelta(datetime_now(tz, t),
                                                     RefreshLifetime)),
                iss |-> ServiceUrl,
                aud |-> ServiceUrl,
                type |-> "refresh"],
               settings.REFRESH_TOKEN_SECRET_KEY)

\* the except clauses with InvalidTokenError caught first
TokenErrorOfBaseFirst(exc) == "TokenDecodeError"

\* the except clauses of both verifiers, in their order
TokenErrorOf(exc) ==
    IF exc = "ExpiredSignatureError" THEN "TokenExpiredError"
    ELSE IF exc \in {"InvalidAudienceError", "InvalidIssuerError"}
      THEN "InvalidTokenSignatureError"
    ELSE "TokenDecodeError"

\* verify_and_decode_access_token decoding with verify_signature off
verify_and_decode_access_token_unverified(token, t) ==
    IF ~token.wellformed
      THEN [err |-> "TokenDecodeError", payload |-> NoPayload]
    ELSE IF token.payload.exp <= t
      THEN [err |-> "TokenExpiredError", payload |-> NoPayload]
    ELSE IF token.payload.type # "access"
      THEN [err |-> "InvalidTokenTypeError", payload |-> NoPayload]
    ELSE [err |-> "none", payload |-> token.payload]

verify_and_decode_access_token(token, t) ==
    LET d == jwt_decode(token, settings.ACCESS_TOKEN_SECRET_KEY,
                        {INTERNAL_JWT_ALGORITHM}, ServiceUrl, ServiceUrl, t)
    IN IF d.exc # "none"
         THEN [err |-> TokenErrorOf(d.exc), payload |-> NoPayload]
       ELSE IF d.payload.type # "access"
         THEN [err |-> "InvalidTokenTypeError", payload |-> NoPayload]
       ELSE [err |-> "none", payload |-> d.payload]

\* verify_and_decode_refresh_token decoding with the access secret
verify_and_decode_refresh_token_access_secret(token, t) ==
    LET d == jwt_decode(token, settings.ACCESS_TOKEN_SECRET_KEY,
                        {INTERNAL_JWT_ALGORITHM}, ServiceUrl, ServiceUrl, t)
    IN IF d.exc # "none"
         THEN [err |-> TokenErrorOf(d.exc), payload |-> NoPayload]
       ELSE IF d.payload.type # "refresh"
         THEN [err |-> "InvalidTokenTypeError", payload |-> NoPayload]
       ELSE [err |-> "none", payload |-> d.payload]

verify_and_decode_refresh_token(token, t) ==
    LET d == jwt_decode(token, settings.REFRESH_TOKEN_SECRET_KEY,
                        {INTERNAL_JWT_ALGORITHM}, ServiceUrl, ServiceUrl, t)
    IN IF d.exc # "none"
         THEN [err |-> TokenErrorOf(d.exc), payload |-> NoPayload]
       ELSE IF d.payload.type # "refresh"
         THEN [err |-> "InvalidTokenTypeError", payload |-> NoPayload]
       ELSE [err |-> "none", payload |-> d.payload]

(***************************************************************************)
(* Token codec as a state machine: tokens are issued, time passes, and     *)
(* anyone presents a token (issued, altered, or from another deployment)   *)
(* to either verifier.                                                     *)
(***************************************************************************)
\* steps that put the clock just before, at and after each kind's exp
ClockSteps == {1, AccessLifetime - 1, RefreshLifetime}

\* a token whose payload was edited by someone who cannot re-sign it
WithType(tok, ty) == [tok EXCEPT !.payload.type = ty]
\* the token a deployment sharing the secret but not the base URL issues
FromOtherDeployment(tok) ==
    jwt_encode([tok.payload EXCEPT !.iss = OtherServiceUrl,
                                   !.aud = OtherServiceUrl],
               tok.sig[1])

\* tokens holds one record per issued token: the token, the subject and
\* kind it was issued for, and the time of issue
Presentable ==
    {r.tok : r \in tokens}
    \cup {WithType(r.tok, ty) : r \in tokens, ty \in TokenTypes}
    \cup {FromOtherDeployment(r.tok) : r \in tokens}
    \cup {GarbageToken}

(***************************************************************************)
(* infrastructure/di.py: the module-level _container and the three         *)
(* functions that read and write it                                        *)
(***************************************************************************)
\* _container is the number of the Container it refers to, 0 for None;
\* built lists the Containers built so far, each with its settings, whether
\* _container refers to it and whether its database was closed; resets
\* counts the resets that cleared _container; returned records every answer
\* of create_container and get_container; waiting is, per caller, the
\* Container whose database.close() a reset_container is awaiting
NoContainers ==
    [_container |-> 0, built |-> <<>>, resets |-> 0, returned |-> {},
     waiting |-> [p \in {1, 2} |-> 0]]

NoVerification ==
    [fn |-> "none", token |-> GarbageToken, at |-> 0, err |-> "none",
     payload |-> NoPayload]

StoreInit ==
    /\ users = {}
    /\ accounts = {}
    /\ started = 0
    /\ completed = {}

\* a zone whose offset never changes, the one where DST ends at the
\* instant TransitionAt and the one where it begins then
TransitionAt == AccessLifetime
FixedOffsetZone == [before |-> 0, after |-> 0, at |-> 0]
Zones ==
    {FixedOffsetZone,
     [before |-> 3600, after |-> 0, at |-> TransitionAt],
     [before |-> 0, after |-> 3600, at |-> TransitionAt]}

JwtInit ==
    /\ now = 0
    /\ tz = FixedOffsetZone
    /\ di = NoContainers
    /\ ticks = 0
    /\ tokens = {}
    /\ last = NoVerification

IssueAccessToken(sub) ==
    /\ Cardinality(tokens) < MaxTokens
    /\ tokens' = tokens \cup
          {[tok |-> create_access_token([user_id |-> sub], now),
            sub |-> sub, kind |-> "access", at |-> now]}
    /\ last' = NoVerification
    /\ UNCHANGED <<now, ticks, tz, di>>
    /\ UNCHANGED storeVars

IssueRefreshToken(sub) ==
    /\ Cardinality(tokens) < MaxTokens
    /\ tokens' = tokens \cup
          {[tok |-> create_refresh_token([user_id |-> sub], now),
            sub |-> sub, kind |-> "refresh", at |-> now]}
    /\ last' = NoVerification
    /\ UNCHANGED <<now, ticks, tz, di>>
    /\ UNCHANGED storeVars

Tick(d) ==
    /\ ticks < MaxTicks
    /\ now' = now + d
    /\ ticks' = ticks + 1
    /\ last' = NoVerification
    /\ UNCHANGED <<tokens, tz, di>>
    /\ UNCHANGED storeVars

VerifyAccessToken(tok) ==
    /\ LET r == verify_and_decode_access_token(tok, now)
       IN last' = [fn |-> "access", token |-> tok, at |-> now,
                   err |-> r.err, payload |-> r.payload]
    /\ UNCHANGED <<now, ticks, tokens, tz, di>>
    /\ UNCHANGED storeVars

VerifyRefreshToken(tok) ==
    /\ LET r == verify_and_decode_refresh_token(tok, now)
       IN last' = [fn |-> "refresh", token |-> tok, at |-> now,
                   err |-> r.err, payload |-> r.payload]
    /\ UNCHANGED <<now, ticks, tokens, tz, di>>
    /\ UNCHANGED storeVars


(***************************************************************************)
(* Domain model (domain/entities.py): User aggregate and LinkedAccount     *)
(***************************************************************************)
Absent == "<absent>"

LinkedAccount(user_id, provider_name, provider_user_id) ==
    [user_id |-> user_id, provider_name |-> provider_name,
     provider_user_id |-> provider_user_id]

User(id, email, name, picture) ==
    [id |-> id, email |-> email, name |-> name, picture |-> picture,
     linked_accounts |-> <<>>]

NoUser == [id |-> 0, email |-> "", name |-> "", picture |-> Absent,
           linked_accounts |-> <<>>]

\* the (provider_name, provider_user_id) key of an account or a row
KeyOf(a) == <<a.provider_name, a.provider_user_id>>

KeysOfUser(user) ==
    {KeyOf(user.linked_accounts[i]) : i \in 1..Len(user.linked_accounts)}

\* add_linked_account without the duplicate check
add_linked_account_unchecked(user, provider_name, provider_user_id) ==
    [exc |-> "none",
     user |-> [user EXCEPT !.linked_accounts =
                  Append(@, LinkedAccount(user.id, provider_name,
                                          provider_user_id))]]

\* add_linked_account returning silently on a duplicate
add_linked_account_ignores_duplicate(user, provider_name, provider_user_id) ==
    IF <<provider_name, provider_user_id>> \in KeysOfUser(user)
      THEN [exc |-> "none", user |-> user]
      ELSE [exc |-> "none",
            user |-> [user EXCEPT !.linked_accounts =
                         Append(@, LinkedAccount(user.id, provider_name,
                                                 provider_user_id))]]

\* User.add_linked_account: the exception raised ("none" if none) and the
\* user afterwards
add_linked_account(user, provider_name, provider_user_id) ==
    IF <<provider_name, provider_user_id>> \in KeysOfUser(user)
      THEN [exc |-> "DuplicateLinkedAccountError", user |-> user]
      ELSE [exc |-> "none",
            user |-> [user EXCEPT !.linked_accounts =
                         Append(@, LinkedAccount(user.id, provider_name,
                                                 provider_user_id))]]

\* the linked_accounts property handing out the aggregate's own list
linked_accounts_same_list(user) ==
    [ref |-> "_linked_accounts", items |-> user.linked_accounts]

\* User.linked_accounts: list(self._linked_accounts), a new list with the
\* same items
linked_accounts(user) == [ref |-> "copy", items |-> user.linked_accounts]

\* to_token_payload reading the id of a user that was never assigned one
to_token_payload_unassigned(user) == [user_id |-> str_of_uuid(NoUser.id)]

to_token_payload(user) == [user_id |-> str_of_uuid(user.id)]

(***************************************************************************)
(* Tables (infrastructure/model.py)                                        *)
(***************************************************************************)
UserModel(id, email, name, picture) ==
    [id |-> id, email |-> email, name |-> name, picture |-> picture]

LinkedAccountModel(id, user_id, provider_name, provider_user_id) ==
    [id |-> id, user_id |-> user_id, provider_name |-> provider_name,
     provider_user_id |-> provider_user_id]

NoRow == UserModel(0, "", "", Absent)

\* users without unique=True on email: only the primary key is enforced
UsersConstraintsHoldPrimaryKeyOnly(rows) ==
    \A a, b \in rows : a.id = b.id => a = b

\* users: id is the primary key, email is unique=True
UsersConstraintsHold(rows) ==
    \A a, b \in rows : (a.id = b.id \/ a.email = b.email) => a = b

\* linked_accounts: id is the primary key, user_id references users.id;
\* the table declares no constraint on (provider_name, provider_user_id)
LinkedAccountsConstraintsHold(userRows, rows) ==
    /\ \A a, b \in rows : a.id = b.id => a = b
    /\ \A a \in rows : \E u \in userRows : u.id = a.user_id

\* UserModel.linked_accounts: the relationship collection of a user row
LinkedAccountsOf(rows, user_id) == {a \in rows : a.user_id = user_id}

(***************************************************************************)
(* PostgreSQLUserRepository (infrastructure/repository.py)                 *)
(***************************************************************************)
RECURSIVE AddAll(_, _)
\* the loop of _to_domain_entity over user_model.linked_accounts
AddAll(state, rows) ==
    IF rows = {} \/ state.exc # "none" THEN state
    ELSE LET a == CHOOSE x \in rows : \A y \in rows : x.id <= y.id
             r == add_linked_account(state.user, a.provider_name,
                                     a.provider_user_id)
         IN AddAll(r, rows \ {a})

\* _to_domain_entity filling email from the name column
_to_domain_entity_name_as_email(user_model, rows) ==
    AddAll([exc |-> "none",
            user |-> User(user_model.id, user_model.name, user_model.name,
                          user_model.picture)],
           LinkedAccountsOf(rows, user_model.id))

_to_domain_entity(user_model, rows) ==
    AddAll([exc |-> "none",
            user |-> User(user_model.id, user_model.email, user_model.name,
                          user_model.picture)],
           LinkedAccountsOf(rows, user_model.id))

\* except clauses of _find_by_linked_account_with_session
FindErrorOf(exc) ==
    IF exc = "MissingGreenlet" THEN "UserSearchError"
    ELSE IF exc = "OperationalError" THEN "DatabaseConnectionError"
    ELSE "UserSearchError"

\* find_by_linked_account that never matches a row
find_by_linked_account_no_match(provider_name, provider_user_id, fault) ==
    IF fault # "none"
      THEN [exc |-> FindErrorOf(fault), found |-> FALSE, user |-> NoUser]
      ELSE [exc |-> "none", found |-> FALSE, user |-> NoUser]

\* find_by_linked_account: select users joined with linked_accounts on the
\* key, unique().scalar_one_or_none(), then _to_domain_entity
find_by_linked_account(provider_name, provider_user_id, fault) ==
    LET matches == {u \in users :
                      \E a \in accounts :
                         /\ a.user_id = u.id
                         /\ a.provider_name = provider_name
                         /\ a.provider_user_id = provider_user_id}
    IN IF fault # "none"
         THEN [exc |-> FindErrorOf(fault), found |-> FALSE, user |-> NoUser]
       ELSE IF Cardinality(matches) > 1
         THEN [exc |-> FindErrorOf("MultipleResultsFound"), found |-> FALSE,
               user |-> NoUser]
       ELSE IF matches = {}
         THEN [exc |-> "none", found |-> FALSE, user |-> NoUser]
       ELSE LET e == _to_domain_entity(CHOOSE u \in matches : TRUE, accounts)
            IN [exc |-> e.exc, found |-> e.exc = "none",
                user |-> IF e.exc = "none" THEN e.user ELSE NoUser]

\* find_by_id without its where clause
find_by_id_any_row(user_id, fault) ==
    IF fault # "none"
      THEN [exc |-> FindErrorOf(fault), found |-> FALSE, user |-> NoUser]
    ELSE IF users = {}
      THEN [exc |-> "none", found |-> FALSE, user |-> NoUser]
    ELSE LET e == _to_domain_entity(
                      CHOOSE u \in users : \A w \in users : u.id <= w.id,
                      accounts)
         IN [exc |-> e.exc, found |-> e.exc = "none",
             user |-> IF e.exc = "none" THEN e.user ELSE NoUser]

\* find_by_id: select users where id = user_id,
\* unique().scalar_one_or_none(), then _to_domain_entity
find_by_id(user_id, fault) ==
    LET matches == {u \in users : u.id = user_id}
    IN IF fault # "none"
         THEN [exc |-> FindErrorOf(fault), found |-> FALSE, user |-> NoUser]
       ELSE IF matches = {}
         THEN [exc |-> "none", found |-> FALSE, user |-> NoUser]
       ELSE LET e == _to_domain_entity(CHOOSE u \in matches : TRUE, accounts)
            IN [exc |-> e.exc, found |-> e.exc = "none",
                user |-> IF e.exc = "none" THEN e.user ELSE NoUser]

\* except clauses of _save_with_session
SaveErrorOf(exc) ==
    IF exc = "IntegrityError" THEN "DataIntegrityError"
    ELSE IF exc = "OperationalError" THEN "DatabaseConnectionError"
    ELSE "UserCreationError"

\* _sync_linked_accounts replacing the whole collection
_sync_linked_accounts_replace_all(existing, new_accounts, user_id, ids) ==
    [deletes |-> existing,
     inserts |-> {LinkedAccountModel(ids[i], user_id,
                                     new_accounts[i].provider_name,
                                     new_accounts[i].provider_user_id) :
                     i \in 1..Len(new_accounts)}]

\* _sync_linked_accounts inserting every in-memory account again
_sync_linked_accounts_reinsert(existing, new_accounts, user_id, ids) ==
    LET new_keys == {KeyOf(new_accounts[i]) : i \in 1..Len(new_accounts)}
    IN [deletes |-> {a \in existing : KeyOf(a) \notin new_keys},
        inserts |-> {LinkedAccountModel(ids[i], user_id,
                                        new_accounts[i].provider_name,
                                        new_accounts[i].provider_user_id) :
                        i \in 1..Len(new_accounts)}]

\* _sync_linked_accounts: the rows to delete and the rows to insert, the
\* k-th inserted row taking ids[k], the k-th uuid4() drawn
_sync_linked_accounts(existing, new_accounts, user_id, ids) ==
    LET existing_keys == {KeyOf(a) : a \in existing}
        new_keys == {KeyOf(new_accounts[i]) : i \in 1..Len(new_accounts)}
        toInsert == {i \in 1..Len(new_accounts) :
                        /\ KeyOf(new_accounts[i]) \notin existing_keys
                        /\ \A j \in 1..(i - 1) :
                              KeyOf(new_accounts[j]) # KeyOf(new_accounts[i])}
        rank(i) == Cardinality({j \in toInsert : j <= i})
    IN [deletes |-> {a \in existing : KeyOf(a) \notin new_keys},
        inserts |-> {LinkedAccountModel(ids[rank(i)], user_id,
                                        new_accounts[i].provider_name,
                                        new_accounts[i].provider_user_id) :
                        i \in toInsert}]

\* the loop of the new-user branch: one row per in-memory account
NewLinkedAccountRows(user, ids) ==
    {LinkedAccountModel(ids[i], user.id,
                        user.linked_accounts[i].provider_name,
                        user.linked_accounts[i].provider_user_id) :
        i \in 1..Len(user.linked_accounts)}

\* session.flush() on an autocommit connection: the row is visible at once
CommittedUsersAfterFlushAutocommit(committed, row) == committed \cup {row}

\* session.flush() inside the open transaction: the committed table as
\* other sessions see it stays as it was
CommittedUsersAfterFlush(committed, row) == committed

NoTx == [mode |-> "none", user_row |-> NoRow, snapshot |-> {},
         deletes |-> {}, inserts |-> {}]


(***************************************************************************)
(* Auth0Client.verify_and_decode_token, first half: key lookup, decode,    *)
(* required claims (infrastructure/auth0_client.py)                        *)
(***************************************************************************)
AUTH0_AUDIENCE == "your-audience"
auth0_issuer == "https://your-domain.auth0.com/"
\* key ids published in the provider's JWKS, each naming its key
JwksKids == {"kid1"}
JwksKey(kid) == <<"auth0-key", kid>>
None == "<None>"

NoClaim == [sub |-> "", email |-> "", name |-> "", picture |-> None]

\* header.get("kid") of the unverified token
kid_of(token) == IF "kid" \in DOMAIN token THEN token.kid ELSE None

\* the exception leaving the verification half ("none" if none) and the
\* claims extracted
\* verify_and_decode_token without key lookup and with verify_signature off:
\* whatever is well formed yields a claim, a token of another algorithm the
\* claim of the first provider identity
verify_id_token_unverified(id_token, jwks_ok, t) ==
    IF ~id_token.wellformed
      THEN [exc |-> "DecodeError", claim |-> NoClaim]
    ELSE IF id_token.alg # AUTH0_ALGORITHM
      THEN [exc |-> "none",
            claim |-> [sub |-> "auth0|s1", email |-> "a@example.com",
                       name |-> "Ann", picture |-> None]]
    ELSE IF Absent \in {id_token.payload.sub, id_token.payload.email,
                        id_token.payload.name}
      THEN [exc |-> "MissingTokenClaimError", claim |-> NoClaim]
    ELSE [exc |-> "none",
          claim |-> [sub |-> id_token.payload.sub,
                     email |-> id_token.payload.email,
                     name |-> id_token.payload.name,
                     picture |-> IF id_token.payload.picture = Absent
                                   THEN None
                                   ELSE id_token.payload.picture]]

\* verify_and_decode_token reading the claims with payload.get(...), so that
\* an absent sub, email or name does not stop it
verify_id_token_claims_unchecked(id_token, jwks_ok, t) ==
    IF ~id_token.wellformed
      THEN [exc |-> "DecodeError", claim |-> NoClaim]
    ELSE IF ~jwks_ok \/ kid_of(id_token) \notin JwksKids
      THEN [exc |-> "JWKSFetchError", claim |-> NoClaim]
    ELSE LET d == jwt_decode(id_token, JwksKey(id_token.kid),
                             {AUTH0_ALGORITHM}, AUTH0_AUDIENCE,
                             auth0_issuer, t)
         IN IF d.exc # "none"
              THEN [exc |-> TokenErrorOf(d.exc), claim |-> NoClaim]
            ELSE [exc |-> "none",
                  claim |-> [sub |-> d.payload.sub,
                             email |-> d.payload.email,
                             name |-> d.payload.name,
                             picture |-> IF d.payload.picture = Absent
                                           THEN None
                                           ELSE d.payload.picture]]

verify_id_token(id_token, jwks_ok, t) ==
    IF ~id_token.wellformed
      \* get_signing_key_from_jwt reads the header of the unverified token
      THEN [exc |-> "DecodeError", claim |-> NoClaim]
    ELSE IF ~jwks_ok \/ kid_of(id_token) \notin JwksKids
      THEN [exc |-> "JWKSFetchError", claim |-> NoClaim]
    ELSE LET d == jwt_decode(id_token, JwksKey(id_token.kid),
                             {AUTH0_ALGORITHM}, AUTH0_AUDIENCE,
                             auth0_issuer, t)
         IN IF d.exc # "none"
              THEN [exc |-> TokenErrorOf(d.exc), claim |-> NoClaim]
            ELSE IF Absent \in {d.payload.sub, d.payload.email,
                                d.payload.name}
              THEN [exc |-> "MissingTokenClaimError", claim |-> NoClaim]
            ELSE [exc |-> "none",
                  claim |-> [sub |-> d.payload.sub,
                             email |-> d.payload.email,
                             name |-> d.payload.name,
                             picture |-> IF d.payload.picture = Absent
                                           THEN None
                                           ELSE d.payload.picture]]

(***************************************************************************)
(* What the identity provider can hand to a callback                       *)
(***************************************************************************)
ProviderSubs == {"auth0|s1", "auth0|s2"}
Emails == {"a@example.com", "b@example.com"}

IdTokenPayload(sub, email, name, picture, t) ==
    [sub |-> sub, email |-> email, name |-> name, picture |-> picture,
     iss |-> auth0_issuer, aud |-> AUTH0_AUDIENCE, exp |-> t + 1]

IdTokenOf(payload) ==
    [wellformed |-> TRUE, alg |-> AUTH0_ALGORITHM, kid |-> "kid1",
     payload |-> payload,
     sig |-> Sign(JwksKey("kid1"), payload)]

\* the profile the provider holds for an email address
NameAt(email) == IF email = "a@example.com" THEN "Ann" ELSE "Bob"
PictureAt(email) ==
    IF email = "a@example.com" THEN Absent
    ELSE "https://cdn.example.com/p.png"

ValidIdTokens ==
    {IdTokenOf(IdTokenPayload(s, e, NameAt(e), PictureAt(e), now)) :
        s \in ProviderSubs, e \in Emails}

DefectiveIdTokens ==
    LET base == IdTokenPayload("auth0|s1", "a@example.com", "Ann", Absent,
                               now)
    IN {IdTokenOf([base EXCEPT !.exp = now - 1]),
        IdTokenOf([base EXCEPT !.aud = "someone-else"]),
        IdTokenOf([base EXCEPT !.email = Absent]),
        [IdTokenOf(base) EXCEPT !.sig = Sign(<<"auth0-key", "forged">>, base)],
        [IdTokenOf(base) EXCEPT !.kid = "kid9"],
        [IdTokenOf(base) EXCEPT !.wellformed = FALSE]}

ProviderResponses ==
    {[exchange_ok |-> x[1], has_id_token |-> x[2], id_token |-> tok,
      jwks_ok |-> x[3]] :
        x \in {<<FALSE, TRUE, TRUE>>, <<TRUE, FALSE, TRUE>>,
               <<TRUE, TRUE, FALSE>>},
        tok \in {IdTokenOf(IdTokenPayload("auth0|s1", "a@example.com", "Ann",
                                          Absent, now))}}
    \cup {[exchange_ok |-> TRUE, has_id_token |-> TRUE, id_token |-> tok,
           jwks_ok |-> TRUE] : tok \in ValidIdTokens \cup DefectiveIdTokens}

(***************************************************************************)
(* Requests in flight                                                      *)
(***************************************************************************)
\* workers, the lowest idle one taking the next request
Procs == {1, 2}
\* storage errors the database driver can raise on any statement
StorageFaults == {"none", "OperationalError", "SQLAlchemyError"}

\* a list object a caller holds: which list it is ("copy" for a list built by
\* list(...), "_linked_accounts" for the aggregate's own list), its items,
\* the last operation made on it, the aggregate's accounts just before that
\* operation and the number of add_linked_account calls made by then
NoView == [ref |-> "none", items |-> <<>>, op |-> "none", ops |-> 0,
           before |-> <<>>, calls |-> 0]

\* a session handed out by get_session or get_db: the rows the body added,
\* the state of its transaction, whether it is open, the session calls made
\* by the scope in their order, how the body ended, the first exception and
\* the exception that leaves the scope
NoSession == [scope |-> "none", pending |-> {}, tx |-> "none",
              open |-> FALSE, log |-> <<>>, body |-> "none",
              exc |-> "none", raised |-> "none"]

NoReq ==
    [kind |-> "none", claim |-> NoClaim, user |-> NoUser, found |-> FALSE,
     created |-> FALSE, tx |-> NoTx, prior |-> {}, writes |-> 0,
     raw |-> "none", repo_err |-> "none", cause |-> "none",
     outcome |-> "none", faulted |-> FALSE,
     access_token |-> GarbageToken, refresh_token |-> GarbageToken,
     pre |-> [users |-> {}, accounts |-> {}],
     presented |-> GarbageToken, first |-> GarbageToken, at |-> 0,
     response |-> [url |-> <<>>, connection |-> ""],
     queries |-> 0, calls |-> 0, arg |-> <<"", "">>,
     prev |-> [user |-> NoUser, queries |-> 0],
     view |-> NoView, session |-> NoSession, reused |-> FALSE]

RequestInit ==
    /\ pc = [p \in Procs |-> "idle"]
    /\ req = [p \in Procs |-> NoReq]

\* except clauses of CallbackUseCase._create_internal_tokens
CreateInternalTokensErrorOf(exc) ==
    IF exc \in {"TokenExpiredError", "InvalidTokenSignatureError",
                "TokenDecodeError", "MissingTokenClaimError",
                "InvalidTokenTypeError", "JWKSFetchError"}
      THEN "InternalTokenCreationError"
    ELSE IF exc \in {"UserSearchError", "UserCreationError",
                     "UserUpdateError", "DatabaseConnectionError",
                     "DataIntegrityError", "DuplicateLinkedAccountError"}
      THEN "InternalTokenCreationError"
    ELSE "InternalTokenCreationError"

\* how an exception leaving the repository or the auth client ends request p:
\* a callback wraps it, a direct caller of save sees it as it is
Raised(p, raw, exc, injected) ==
    [req[p] EXCEPT
        !.raw = raw,
        !.repo_err = exc,
        !.cause = exc,
        !.faulted = @ \/ injected,
        !.outcome = IF req[p].kind = "callback"
                      THEN CreateInternalTokensErrorOf(exc)
                      ELSE exc]


(***************************************************************************)
(* uuid4(): a value no row and no request in flight holds                  *)
(***************************************************************************)
UsedIds ==
    {u.id : u \in users} \cup {a.id : a \in accounts}
    \cup UNION {{req[p].user.id}
                \cup {a.id : a \in req[p].tx.inserts}
                \cup {a.id : a \in req[p].tx.snapshot}
                \cup {u.id : u \in req[p].pre.users}
                \cup {a.id : a \in req[p].pre.accounts} : p \in Procs}

FreeIds == (1..MaxIds) \ UsedIds

\* the values successive uuid4() calls return; 0 once the ids of the model
\* are used up
uuid4 ==
    [k \in 1..MaxIds |->
        IF k <= Cardinality(FreeIds)
          THEN CHOOSE i \in FreeIds :
                  Cardinality({j \in FreeIds : j < i}) = k - 1
          ELSE 0]

(***************************************************************************)
(* CallbackUseCase.execute going on to verification without looking at    *)
(* the outcome of the code exchange or at the token set                    *)
(***************************************************************************)
CallbackBeginVerifiesAnyResponse(p, resp) ==
    /\ pc[p] = "idle"
    /\ \A q \in Procs : q < p => pc[q] # "idle"
    /\ started < MaxCallbacks
    /\ started' = started + 1
    /\ LET fresh == [NoReq EXCEPT !.kind = "callback", !.prior = completed,
                                  !.presented = resp, !.at = now]
           v == verify_id_token(resp.id_token, resp.jwks_ok, now)
       IN IF v.exc # "none"
            THEN /\ req' = [req EXCEPT ![p] =
                              [fresh EXCEPT
                                 !.cause = v.exc,
                                 !.outcome = CreateInternalTokensErrorOf(v.exc)]]
                 /\ pc' = [pc EXCEPT ![p] = "done"]
          ELSE /\ req' = [req EXCEPT ![p] = [fresh EXCEPT !.claim = v.claim]]
               /\ pc' = [pc EXCEPT ![p] = "find"]
    /\ UNCHANGED <<users, accounts, completed>>
    /\ UNCHANGED jwtVars

(***************************************************************************)
(* CallbackUseCase.execute up to the first repository call                 *)
(***************************************************************************)
CallbackBegin(p, resp) ==
    /\ pc[p] = "idle"
    /\ \A q \in Procs : q < p => pc[q] # "idle"
    /\ started < MaxCallbacks
    /\ started' = started + 1
    /\ LET fresh == [NoReq EXCEPT !.kind = "callback", !.prior = completed,
                                  !.presented = resp, !.at = now]
           v == verify_id_token(resp.id_token, resp.jwks_ok, now)
       IN IF ~resp.exchange_ok
            \* get_token_from_provider raised ProviderAuthenticationError
            THEN /\ req' = [req EXCEPT ![p] =
                              [fresh EXCEPT
                                 !.cause = "ProviderAuthenticationError",
                                 !.outcome = "GetTokenFromProviderError"]]
                 /\ pc' = [pc EXCEPT ![p] = "done"]
          ELSE IF ~resp.has_id_token
            \* token["id_token"] raised KeyError
            THEN /\ req' = [req EXCEPT ![p] =
                              [fresh EXCEPT !.cause = "KeyError",
                                            !.outcome = "MissingIdTokenError"]]
                 /\ pc' = [pc EXCEPT ![p] = "done"]
          ELSE IF v.exc # "none"
            THEN /\ req' = [req EXCEPT ![p] =
                              [fresh EXCEPT
                                 !.cause = v.exc,
                                 !.outcome = CreateInternalTokensErrorOf(v.exc)]]
                 /\ pc' = [pc EXCEPT ![p] = "done"]
          ELSE /\ req' = [req EXCEPT ![p] = [fresh EXCEPT !.claim = v.claim]]
               /\ pc' = [pc EXCEPT ![p] = "find"]
    /\ UNCHANGED <<users, accounts, completed>>
    /\ UNCHANGED jwtVars

(***************************************************************************)
(* Auth0Client.verify_and_decode_token, second half: find, else create     *)
(***************************************************************************)
Find(p, fault) ==
    /\ pc[p] = "find"
    /\ LET r == find_by_linked_account("auth0", req[p].claim.sub, fault)
           c == req[p].claim
           created == add_linked_account(
                          User(uuid4[1], c.email, c.name, c.picture),
                          "auth0", c.sub)
       IN IF r.exc # "none"
            THEN /\ req' = [req EXCEPT ![p] =
                              Raised(p, fault, r.exc, fault # "none")]
                 /\ pc' = [pc EXCEPT ![p] = "done"]
          ELSE IF r.found
            THEN /\ req' = [req EXCEPT ![p].user = r.user, ![p].found = TRUE]
                 /\ pc' = [pc EXCEPT ![p] = "issue"]
          ELSE /\ FreeIds # {}
               /\ req' = [req EXCEPT ![p].user = created.user]
               /\ pc' = [pc EXCEPT ![p] = "save_select"]
    /\ UNCHANGED <<users, accounts, started, completed>>
    /\ UNCHANGED jwtVars

(***************************************************************************)
(* PostgreSQLUserRepository.save, statement by statement                   *)
(***************************************************************************)
\* select(UserModel).where(UserModel.id == user.id), then either the update
\* branch (fields, _sync_linked_accounts) or the start of the create branch
SaveSelect(p, fault) ==
    /\ pc[p] = "save_select"
    /\ LET user == req[p].user
           row == UserModel(user.id, user.email, user.name, user.picture)
           existing == LinkedAccountsOf(accounts, user.id)
           diff == _sync_linked_accounts(existing, user.linked_accounts,
                                         user.id, uuid4)
       IN IF fault # "none"
            THEN /\ req' = [req EXCEPT ![p] =
                              Raised(p, fault, SaveErrorOf(fault), TRUE)]
                 /\ pc' = [pc EXCEPT ![p] = "done"]
          ELSE IF \E u \in users : u.id = user.id
            THEN /\ \A a \in diff.inserts : a.id \in FreeIds
                 /\ req' = [req EXCEPT ![p].tx =
                              [mode |-> "update", user_row |-> row,
                               snapshot |-> existing,
                               deletes |-> diff.deletes,
                               inserts |-> diff.inserts]]
                 /\ pc' = [pc EXCEPT ![p] = "save_commit"]
          ELSE /\ req' = [req EXCEPT ![p].tx =
                            [NoTx EXCEPT !.mode = "insert",
                                         !.user_row = row]]
               /\ pc' = [pc EXCEPT ![p] = "save_flush"]
    /\ UNCHANGED <<users, accounts, started, completed>>
    /\ UNCHANGED jwtVars

\* another open transaction holds an uncommitted users row with the same
\* primary key or email: the INSERT waits for it to end
InsertWaits(p, row) ==
    \E q \in Procs \ {p} :
        /\ pc[q] = "save_commit"
        /\ req[q].tx.mode = "insert"
        /\ (req[q].tx.user_row.id = row.id
            \/ req[q].tx.user_row.email = row.email)

\* session.add(user_model); session.flush(); then one LinkedAccountModel per
\* account is added to the session
SaveFlush(p, fault) ==
    /\ pc[p] = "save_flush"
    /\ LET user == req[p].user
           row == req[p].tx.user_row
       IN /\ ~InsertWaits(p, row)
          /\ IF fault # "none"
               THEN /\ req' = [req EXCEPT ![p] =
                                 Raised(p, fault, SaveErrorOf(fault), TRUE)]
                    /\ pc' = [pc EXCEPT ![p] = "done"]
                    /\ UNCHANGED users
             ELSE IF ~UsersConstraintsHold(users \cup {row})
               THEN /\ req' = [req EXCEPT ![p] =
                                 Raised(p, "IntegrityError",
                                        SaveErrorOf("IntegrityError"), FALSE)]
                    /\ pc' = [pc EXCEPT ![p] = "done"]
                    /\ UNCHANGED users
             ELSE /\ Len(user.linked_accounts) <= Cardinality(FreeIds)
                  /\ users' = CommittedUsersAfterFlush(users, row)
                  /\ req' = [req EXCEPT ![p].tx.inserts =
                               NewLinkedAccountRows(user, uuid4)]
                  /\ pc' = [pc EXCEPT ![p] = "save_commit"]
    /\ UNCHANGED <<accounts, started, completed>>
    /\ UNCHANGED jwtVars

\* a save that swallows the failure of session.commit() and returns as if
\* the rows were committed
SaveCommitIgnoresFailure(p, fault) ==
    /\ pc[p] = "save_commit"
    /\ LET tx == req[p].tx
           old == {u \in users : u.id = tx.user_row.id}
           newUsers == (users \ old) \cup {tx.user_row}
           newAccounts == (accounts \ tx.deletes) \cup tx.inserts
           failed == \/ fault # "none"
                     \/ ~(tx.deletes \subseteq accounts)
                     \/ ~UsersConstraintsHold(newUsers)
                     \/ ~LinkedAccountsConstraintsHold(newUsers, newAccounts)
       IN /\ users' = IF failed THEN users ELSE newUsers
          /\ accounts' = IF failed THEN accounts ELSE newAccounts
          /\ req' = [req EXCEPT
                ![p].created = (tx.mode = "insert"),
                ![p].faulted = @ \/ fault # "none",
                ![p].outcome = IF req[p].kind = "save" THEN "saved" ELSE @]
          /\ pc' = [pc EXCEPT ![p] = IF req[p].kind = "save"
                                        THEN "done" ELSE "issue"]
    /\ UNCHANGED <<started, completed>>
    /\ UNCHANGED jwtVars

\* session.commit(): the pending rows are flushed and the transaction is
\* committed; the call sits outside the try block of _save_with_session
SaveCommit(p, fault) ==
    /\ pc[p] = "save_commit"
    /\ LET tx == req[p].tx
           old == {u \in users : u.id = tx.user_row.id}
           newUsers == (users \ old) \cup {tx.user_row}
           newAccounts == (accounts \ tx.deletes) \cup tx.inserts
           exc == IF fault # "none" THEN fault
                  ELSE IF ~(tx.deletes \subseteq accounts)
                    THEN "StaleDataError"
                  ELSE IF ~UsersConstraintsHold(newUsers)
                          \/ ~LinkedAccountsConstraintsHold(newUsers,
                                                            newAccounts)
                    THEN "IntegrityError"
                  ELSE "none"
       IN IF exc # "none"
            THEN /\ req' = [req EXCEPT ![p] =
                              Raised(p, exc, exc, fault # "none")]
                 /\ pc' = [pc EXCEPT ![p] = "done"]
                 /\ UNCHANGED <<users, accounts>>
          ELSE /\ users' = newUsers
               /\ accounts' = newAccounts
               /\ req' = [req EXCEPT
                     ![p].created = (tx.mode = "insert"),
                     ![p].writes = Cardinality(newUsers \ users)
                                   + Cardinality(tx.deletes)
                                   + Cardinality(tx.inserts),
                     ![p].outcome = IF req[p].kind = "save" THEN "saved"
                                    ELSE @]
               /\ pc' = [pc EXCEPT ![p] = IF req[p].kind = "save"
                                             THEN "done" ELSE "issue"]
    /\ UNCHANGED <<started, completed>>
    /\ UNCHANGED jwtVars

(***************************************************************************)
(* CallbackUseCase._create_internal_tokens after the user is resolved      *)
(***************************************************************************)
\* to_token_payload, create_access_token, create_refresh_token; jwt.encode
\* either returns or raises, and nothing around these calls catches
IssueTokens(p, encode_ok) ==
    /\ pc[p] = "issue"
    /\ LET token_payload == to_token_payload(req[p].user)
       IN IF encode_ok
            THEN /\ req' = [req EXCEPT
                       ![p].access_token =
                           create_access_token(token_payload, now),
                       ![p].refresh_token =
                           create_refresh_token(token_payload, now),
                       ![p].outcome = "tokens"]
                 /\ completed' = completed \cup
                       {[sub |-> req[p].claim.sub, uid |-> req[p].user.id]}
            ELSE /\ req' = [req EXCEPT ![p].cause = "Exception",
                                       ![p].faulted = TRUE,
                                       ![p].outcome = "Exception"]
                 /\ UNCHANGED completed
    /\ pc' = [pc EXCEPT ![p] = "done"]
    /\ UNCHANGED <<users, accounts, started>>
    /\ UNCHANGED jwtVars

\* the response has been sent; the worker takes the next request
Finish(p) ==
    /\ pc[p] = "done"
    /\ pc' = [pc EXCEPT ![p] = "idle"]
    /\ req' = [req EXCEPT ![p] = NoReq]
    /\ UNCHANGED <<users, accounts, started, completed>>
    /\ UNCHANGED jwtVars


(***************************************************************************)
(* The repository used directly: save(user) for any aggregate a caller     *)
(* can build, one unit of work at a time, which the driver can fail and    *)
(* the process can abandon at any statement                                *)
(***************************************************************************)
Providers == {"auth0", "cognito"}
AccountKeys == {<<"auth0", "auth0|s1">>, <<"auth0", "auth0|s2">>,
                <<"cognito", "c1">>}
\* the order in which a caller attaches accounts
KeyOrder == <<<<"auth0", "auth0|s1">>, <<"auth0", "auth0|s2">>,
              <<"cognito", "c1">>>>

RECURSIVE WithAccounts(_, _)
\* the user after add_linked_account for each key of the sequence
WithAccounts(user, keys) ==
    IF keys = <<>> THEN user
    ELSE WithAccounts(add_linked_account(user, keys[1][1], keys[1][2]).user,
                      Tail(keys))

SaveProcs == {1}

BeginSave(p, id, email, name, picture, keys) ==
    /\ \A q \in Procs : pc[q] = "idle"
    /\ started < MaxSaves
    /\ started' = started + 1
    /\ \/ \E u \in users : u.id = id
       \/ FreeIds # {} /\ id = uuid4[1]
    /\ req' = [req EXCEPT ![p] =
                 [NoReq EXCEPT
                    !.kind = "save",
                    !.user = WithAccounts(User(id, email, name, picture),
                                          keys),
                    !.pre = [users |-> users, accounts |-> accounts]]]
    /\ pc' = [pc EXCEPT ![p] = "save_select"]
    /\ UNCHANGED <<users, accounts, completed>>
    /\ UNCHANGED jwtVars

\* the process dies or the task is cancelled inside save: the session is
\* closed without commit and the transaction is rolled back
Interrupt(p) ==
    /\ pc[p] \in {"save_select", "save_flush", "save_commit"}
    /\ req' = [req EXCEPT ![p].outcome = "interrupted",
                          ![p].faulted = TRUE]
    /\ pc' = [pc EXCEPT ![p] = "done"]
    /\ UNCHANGED <<users, accounts, started, completed>>
    /\ UNCHANGED jwtVars

(***************************************************************************)
(* A caller working on one aggregate: it builds a User or loads one with   *)
(* find_by_id, calls add_linked_account any number of times, catching the  *)
(* rejection or not, and hands the aggregate to save                       *)
(***************************************************************************)
BeginEdit(p, id, email, fault) ==
    /\ \A q \in Procs : pc[q] = "idle"
    /\ started < MaxSaves
    /\ started' = started + 1
    /\ LET fresh == [NoReq EXCEPT
                        !.kind = "save",
                        !.pre = [users |-> users, accounts |-> accounts]]
           r == find_by_id(id, fault)
       IN IF \E u \in users : u.id = id
            THEN /\ \E u \in users : u.id = id /\ u.email = email
                 /\ IF r.exc # "none"
                      THEN /\ req' = [req EXCEPT ![p] =
                                        [fresh EXCEPT !.queries = 1,
                                                      !.raw = fault,
                                                      !.repo_err = r.exc,
                                                      !.cause = r.exc,
                                                      !.faulted = TRUE,
                                                      !.outcome = r.exc]]
                           /\ pc' = [pc EXCEPT ![p] = "done"]
                      ELSE /\ req' = [req EXCEPT ![p] =
                                        [fresh EXCEPT !.queries = 1,
                                                      !.found = TRUE,
                                                      !.user = r.user]]
                           /\ pc' = [pc EXCEPT ![p] = "edit"]
            ELSE /\ fault = "none"
                 /\ FreeIds # {}
                 /\ id = uuid4[1]
                 /\ req' = [req EXCEPT ![p] =
                              [fresh EXCEPT
                                 !.user = User(id, email, NameAt(email),
                                               IF PictureAt(email) = Absent
                                                 THEN None
                                                 ELSE PictureAt(email))]]
                 /\ pc' = [pc EXCEPT ![p] = "edit"]
    /\ UNCHANGED <<users, accounts, completed>>
    /\ UNCHANGED jwtVars

\* user.add_linked_account(provider_name, provider_user_id); the caller goes
\* on with the aggregate whether the call raised or not
AddLinkedAccount(p, key) ==
    /\ pc[p] = "edit"
    /\ req[p].calls < MaxLinkCalls
    /\ LET r == add_linked_account(req[p].user, key[1], key[2])
       IN req' = [req EXCEPT
                    ![p].prev = [user |-> req[p].user,
                                 queries |-> req[p].queries],
                    ![p].arg = key,
                    ![p].calls = @ + 1,
                    ![p].cause = r.exc,
                    ![p].user = r.user]
    /\ UNCHANGED <<users, accounts, started, completed, pc>>
    /\ UNCHANGED jwtVars

\* what a list operation leaves in a list
ListOps == {"append", "remove", "clear"}
list_op(items, op, item) ==
    IF op = "append" THEN Append(items, item)
    ELSE IF op = "remove" THEN Tail(items)
    ELSE <<>>

\* accounts = user.linked_accounts
ReadLinkedAccounts(p) ==
    /\ pc[p] = "edit"
    /\ req[p].view.ops < MaxListOps
    /\ LET l == linked_accounts(req[p].user)
       IN req' = [req EXCEPT ![p].view =
                    [ref |-> l.ref, items |-> l.items, op |-> "read",
                     ops |-> req[p].view.ops,
                     before |-> req[p].user.linked_accounts,
                     calls |-> req[p].calls]]
    /\ UNCHANGED <<users, accounts, started, completed, pc>>
    /\ UNCHANGED jwtVars

\* accounts.append(LinkedAccount(...)), accounts.remove(accounts[0]) or
\* accounts.clear() on the list the property returned: an operation on the
\* aggregate's own list changes the aggregate
MutateList(p, op, key) ==
    /\ pc[p] = "edit"
    /\ req[p].view.ref # "none"
    /\ req[p].view.ops < MaxListOps
    /\ op = "remove" => req[p].view.items # <<>>
    /\ LET items == list_op(req[p].view.items, op,
                            LinkedAccount(req[p].user.id, key[1], key[2]))
       IN req' = [req EXCEPT
                    ![p].view = [@ EXCEPT !.items = items,
                                          !.op = op,
                                          !.ops = @ + 1,
                                          !.before =
                                             req[p].user.linked_accounts,
                                          !.calls = req[p].calls],
                    ![p].user = IF req[p].view.ref = "_linked_accounts"
                                  THEN [@ EXCEPT !.linked_accounts = items]
                                  ELSE @]
    /\ UNCHANGED <<users, accounts, started, completed, pc>>
    /\ UNCHANGED jwtVars

(***************************************************************************)
(* Database.get_session (infrastructure/db/connection.py) and get_db        *)
(* (contexts/users/infrastructure/database.py): try / yield / commit,      *)
(* except Exception / rollback / raise, finally / close                    *)
(***************************************************************************)
Scopes == {"get_session", "get_db"}
\* how the body of the with block, or the request served with the yielded
\* session, ends: it returns, raises an Exception, or is ended by a
\* BaseException that is no Exception (asyncio.CancelledError, GeneratorExit)
BodyOutcomes == {"return", "Exception", "CancelledError"}

\* the scope is entered and the session yielded
EnterScope(p, scope) ==
    /\ \A q \in Procs : pc[q] = "idle"
    /\ started < MaxSaves
    /\ started' = started + 1
    /\ req' = [req EXCEPT ![p] =
                 [NoReq EXCEPT
                    !.kind = "scope",
                    !.pre = [users |-> users, accounts |-> accounts],
                    !.session = [NoSession EXCEPT !.scope = scope,
                                                  !.tx = "active",
                                                  !.open = TRUE]]]
    /\ pc' = [pc EXCEPT ![p] = "scope_body"]
    /\ UNCHANGED <<users, accounts, completed>>
    /\ UNCHANGED jwtVars

\* a body that goes on to the commit however it ended
ScopeBodyCommitsAlways(p, email, outcome) ==
    /\ pc[p] = "scope_body"
    /\ FreeIds # {}
    /\ req' = [req EXCEPT
                 ![p].session.pending =
                     {UserModel(uuid4[1], email, NameAt(email), None)},
                 ![p].session.body = outcome,
                 ![p].session.exc = IF outcome = "return" THEN "none"
                                    ELSE outcome]
    /\ pc' = [pc EXCEPT ![p] = "scope_commit"]
    /\ UNCHANGED <<users, accounts, started, completed>>
    /\ UNCHANGED jwtVars

\* the body adds a row to the session and ends: a return resumes the scope
\* after the yield, an Exception enters the except clause, any other
\* BaseException passes the except clause and reaches finally
ScopeBody(p, email, outcome) ==
    /\ pc[p] = "scope_body"
    /\ FreeIds # {}
    /\ req' = [req EXCEPT
                 ![p].session.pending =
                     {UserModel(uuid4[1], email, NameAt(email), None)},
                 ![p].session.body = outcome,
                 ![p].session.exc = IF outcome = "return" THEN "none"
                                    ELSE outcome]
    /\ pc' = [pc EXCEPT ![p] = IF outcome = "return" THEN "scope_commit"
                               ELSE IF outcome = "Exception"
                                 THEN "scope_except"
                               ELSE "scope_finally"]
    /\ UNCHANGED <<users, accounts, started, completed>>
    /\ UNCHANGED jwtVars

\* session.commit(): the pending rows become durable unless the driver fails
\* or a constraint refuses them, and then the exception enters the except
\* clause
ScopeCommit(p, fault) ==
    /\ pc[p] = "scope_commit"
    /\ LET s == req[p].session
           rows == users \cup s.pending
           exc == IF fault # "none" THEN fault
                  ELSE IF ~UsersConstraintsHold(rows) THEN "IntegrityError"
                  ELSE "none"
       IN IF exc = "none"
            THEN /\ users' = rows
                 /\ req' = [req EXCEPT
                              ![p].session.tx = "committed",
                              ![p].session.pending = {},
                              ![p].session.log = Append(@, "commit")]
                 /\ pc' = [pc EXCEPT ![p] = "scope_finally"]
            ELSE /\ users' = users
                 /\ req' = [req EXCEPT
                              ![p].session.tx = "failed",
                              ![p].session.exc =
                                  IF @ = "none" THEN exc ELSE @,
                              ![p].session.log = Append(@, "commit")]
                 /\ pc' = [pc EXCEPT ![p] = "scope_except"]
    /\ UNCHANGED <<accounts, started, completed>>
    /\ UNCHANGED jwtVars

\* except Exception: session.rollback(); raise.  A rollback that fails
\* raises its own exception in place of the one being handled
ScopeRollback(p, fault) ==
    /\ pc[p] = "scope_except"
    /\ req' = [req EXCEPT
                 ![p].session.log = Append(@, "rollback"),
                 ![p].session.tx = IF fault = "none" THEN "rolled_back"
                                   ELSE "failed",
                 ![p].session.pending = IF fault = "none" THEN {} ELSE @,
                 ![p].session.raised = IF fault = "none"
                                         THEN req[p].session.exc
                                         ELSE fault]
    /\ pc' = [pc EXCEPT ![p] = "scope_finally"]
    /\ UNCHANGED <<users, accounts, started, completed>>
    /\ UNCHANGED jwtVars

\* finally: session.close(), which ends a transaction still in progress by
\* releasing its connection; a BaseException that passed the except clause
\* goes on propagating.  get_session is left through the async with of the
\* session, get_db is over
ScopeClose(p) ==
    /\ pc[p] = "scope_finally"
    /\ LET s == req[p].session
       IN req' = [req EXCEPT
                    ![p].session.log = Append(@, "close"),
                    ![p].session.open = FALSE,
                    ![p].session.pending = {},
                    ![p].session.tx = IF s.tx \in {"active", "failed"}
                                        THEN "rolled_back" ELSE @,
                    ![p].session.raised =
                        IF s.raised = "none" /\ s.tx # "committed"
                          THEN s.exc ELSE @,
                    ![p].outcome = IF s.raised # "none" THEN s.raised
                                   ELSE IF s.tx # "committed" THEN s.exc
                                   ELSE "none"]
    /\ pc' = [pc EXCEPT ![p] = IF req[p].session.scope = "get_session"
                               THEN "scope_exit" ELSE "done"]
    /\ UNCHANGED <<users, accounts, started, completed>>
    /\ UNCHANGED jwtVars

\* async with self.async_session_maker() as session: leaving the block
\* closes the session once more
ScopeExit(p) ==
    /\ pc[p] = "scope_exit"
    /\ req' = [req EXCEPT ![p].session.log = Append(@, "close"),
                          ![p].session.open = FALSE]
    /\ pc' = [pc EXCEPT ![p] = "done"]
    /\ UNCHANGED <<users, accounts, started, completed>>
    /\ UNCHANGED jwtVars

\* await user_repository.save(user)
SubmitSave(p) ==
    /\ pc[p] = "edit"
    /\ req' = [req EXCEPT ![p].queries = @ + 1]
    /\ pc' = [pc EXCEPT ![p] = "save_select"]
    /\ UNCHANGED <<users, accounts, started, completed>>
    /\ UNCHANGED jwtVars

(***************************************************************************)
(* Tokens a client can send to the refresh and profile endpoints           *)
(***************************************************************************)
\* a sub that is not the text of a UUID, and a payload without sub
NotAUuid == <<"text", 0>>
NoSub == <<>>

SigningKeys == {settings.ACCESS_TOKEN_SECRET_KEY,
                settings.REFRESH_TOKEN_SECRET_KEY, "attacker-secret"}

\* the claims of an issued token, with any sub, signed by whoever holds key
Minted(tok, sub, key) == jwt_encode([tok.payload EXCEPT !.sub = sub], key)

ClientTokens ==
    Presentable
    \cup UNION {{Minted(r.tok, sub, key) :
                    sub \in {r.sub, NotAUuid, NoSub}, key \in SigningKeys} :
                 r \in tokens}

(***************************************************************************)
(* RefreshTokenUseCase.execute (application/usecase/refresh_token.py)      *)
(***************************************************************************)
\* the except clauses around verify_and_decode_refresh_token raising the
\* caught exception again
RefreshErrorOfReraise(exc) == exc

\* the except clauses around verify_and_decode_refresh_token
RefreshErrorOf(exc) ==
    IF exc \in {"TokenExpiredError", "InvalidTokenSignatureError",
                "TokenDecodeError"}
      THEN "TokenRefreshError"
    ELSE IF exc = "InvalidTokenTypeError" THEN "TokenRefreshError"
    ELSE "TokenRefreshError"

\* token_payload = {"user_id": payload["sub"]} naming one fixed user
rebuilt_token_payload_fixed_user(payload) == [user_id |-> str_of_uuid(1)]

\* token_payload = {"user_id": payload["sub"]}
rebuilt_token_payload(payload) == [user_id |-> payload.sub]

\* execute after verify_and_decode_refresh_token has returned or raised v
refresh_result(v, fresh, t, encode_ok) ==
    LET token_payload == rebuilt_token_payload(v.payload)
    IN IF v.err # "none"
         THEN [fresh EXCEPT !.cause = v.err,
                            !.outcome = RefreshErrorOf(v.err)]
       ELSE IF v.payload.sub = NoSub
         \* payload["sub"] raised KeyError
         THEN [fresh EXCEPT !.cause = "KeyError",
                            !.outcome = "TokenRefreshError"]
       ELSE IF ~encode_ok
         \* jwt.encode raised; the two create calls sit outside any try
         THEN [fresh EXCEPT !.cause = "Exception",
                            !.faulted = TRUE,
                            !.outcome = "Exception"]
       ELSE [fresh EXCEPT
               !.access_token = create_access_token(token_payload, t),
               !.refresh_token = create_refresh_token(token_payload, t),
               !.outcome = "tokens"]

\* an execute that looks the subject up in the users table before it
\* answers
refresh_execute_requires_user(fresh, refresh_token, t, encode_ok) ==
    IF \E u \in users : str_of_uuid(u.id) = refresh_token.payload.sub
      THEN refresh_result(verify_and_decode_refresh_token(refresh_token, t),
                          [fresh EXCEPT !.queries = 1], t, encode_ok)
      ELSE [fresh EXCEPT !.queries = 1, !.cause = "UserNotFound",
                         !.outcome = "TokenRefreshError"]

\* RefreshTokenUseCase.execute: the request record it ends with
refresh_execute(fresh, refresh_token, t, encode_ok) ==
    refresh_result(verify_and_decode_refresh_token(refresh_token, t),
                   fresh, t, encode_ok)

\* the whole call: it has no await, so nothing interleaves with it
RefreshTokenExecute(p, refresh_token, encode_ok) ==
    /\ \A q \in Procs : pc[q] = "idle"
    /\ LET fresh == [NoReq EXCEPT
                       !.kind = "refresh",
                       !.presented = refresh_token,
                       !.first = refresh_token,
                       !.at = now,
                       !.pre = [users |-> users, accounts |-> accounts]]
       IN req' = [req EXCEPT ![p] =
                     refresh_execute(fresh, refresh_token, now, encode_ok)]
    /\ pc' = [pc EXCEPT ![p] = "done"]
    /\ UNCHANGED <<users, accounts, started, completed>>
    /\ UNCHANGED jwtVars

\* the client that has just been handed a token pair calls the endpoint
\* again with the refresh token of that pair
RefreshAgain(p, encode_ok) ==
    /\ pc[p] = "done"
    /\ req[p].kind = "refresh"
    /\ req[p].outcome = "tokens"
    /\ req[p].calls < MaxRefreshes
    /\ LET fresh == [NoReq EXCEPT
                       !.kind = "refresh",
                       !.presented = req[p].refresh_token,
                       !.first = req[p].first,
                       !.calls = req[p].calls + 1,
                       !.at = now,
                       !.pre = [users |-> users, accounts |-> accounts]]
       IN req' = [req EXCEPT ![p] =
                     refresh_execute(fresh, req[p].refresh_token, now,
                                     encode_ok)]
    /\ UNCHANGED <<pc, users, accounts, started, completed>>
    /\ UNCHANGED jwtVars

\* an endpoint that accepts a refresh token once: the token it has already
\* exchanged is refused
RefreshSameRefused(p, encode_ok) ==
    /\ pc[p] = "done"
    /\ req[p].kind = "refresh"
    /\ req[p].outcome = "tokens"
    /\ req[p].calls < MaxRefreshes
    /\ req' = [req EXCEPT ![p] =
                 [NoReq EXCEPT
                    !.kind = "refresh",
                    !.presented = req[p].presented,
                    !.first = req[p].first,
                    !.calls = req[p].calls + 1,
                    !.reused = TRUE,
                    !.at = now,
                    !.pre = [users |-> users, accounts |-> accounts],
                    !.cause = "TokenReused",
                    !.outcome = "TokenRefreshError"]]
    /\ UNCHANGED <<pc, users, accounts, started, completed>>
    /\ UNCHANGED jwtVars

\* the client that has just been handed a token pair calls the endpoint
\* again with the refresh token it presented before, not with the new one
RefreshSame(p, encode_ok) ==
    /\ pc[p] = "done"
    /\ req[p].kind = "refresh"
    /\ req[p].outcome = "tokens"
    /\ req[p].calls < MaxRefreshes
    /\ LET fresh == [NoReq EXCEPT
                       !.kind = "refresh",
                       !.presented = req[p].presented,
                       !.first = req[p].first,
                       !.calls = req[p].calls + 1,
                       !.reused = TRUE,
                       !.at = now,
                       !.pre = [users |-> users, accounts |-> accounts]]
       IN req' = [req EXCEPT ![p] =
                     refresh_execute(fresh, req[p].presented, now,
                                     encode_ok)]
    /\ UNCHANGED <<pc, users, accounts, started, completed>>
    /\ UNCHANGED jwtVars

(***************************************************************************)
(* GetAuthenticatedUserUseCase.execute                                     *)
(* (application/usecase/get_authenticated_user.py)                         *)
(***************************************************************************)
\* tokens the service issued when it started, for user ids and for a
\* user_id that is not the text of a UUID
IssuedAtStart ==
    {create_access_token([user_id |-> sub], 0) :
        sub \in Subjects \cup {NotAUuid}}
    \cup {create_refresh_token([user_id |-> sub], 0) : sub \in Subjects}

\* what a client can send as its access token: an issued token, one with
\* its type edited, one of another deployment, one minted by whoever holds
\* a key, with or without sub, or no JWT at all
AccessTokensSent ==
    IssuedAtStart
    \cup {WithType(tok, "access") : tok \in IssuedAtStart}
    \cup {FromOtherDeployment(tok) : tok \in IssuedAtStart}
    \cup {Minted(tok, sub, key) :
             tok \in IssuedAtStart, sub \in {str_of_uuid(1), NoSub},
             key \in SigningKeys}
    \cup {GarbageToken}

\* UUID(text): the id a well-formed text denotes, ValueError otherwise
UUID(text) ==
    IF Len(text) = 2 /\ text[1] = "uuid"
      THEN [exc |-> "none", id |-> text[2]]
      ELSE [exc |-> "ValueError", id |-> 0]

\* execute up to its await: verify the token, read and parse sub
GetUserVerify(p, access_token) ==
    /\ \A q \in Procs : pc[q] = "idle"
    /\ LET fresh == [NoReq EXCEPT !.kind = "get_user",
                                  !.presented = access_token,
                                  !.at = now]
           v == verify_and_decode_access_token(access_token, now)
           id == UUID(v.payload.sub)
       IN IF v.err # "none"
            \* except TokenVerificationError
            THEN /\ req' = [req EXCEPT ![p] =
                              [fresh EXCEPT
                                 !.cause = v.err,
                                 !.outcome = "AccessTokenVerificationError"]]
                 /\ pc' = [pc EXCEPT ![p] = "done"]
          ELSE IF v.payload.sub = NoSub
            \* payload["sub"] raised KeyError
            THEN /\ req' = [req EXCEPT ![p] =
                              [fresh EXCEPT
                                 !.cause = "KeyError",
                                 !.outcome = "AccessTokenVerificationError"]]
                 /\ pc' = [pc EXCEPT ![p] = "done"]
          ELSE IF id.exc # "none"
            \* UUID(...) raised ValueError, which no clause catches
            THEN /\ req' = [req EXCEPT ![p] =
                              [fresh EXCEPT !.cause = id.exc,
                                            !.outcome = id.exc]]
                 /\ pc' = [pc EXCEPT ![p] = "done"]
          ELSE /\ req' = [req EXCEPT ![p] =
                            [fresh EXCEPT !.user = [NoUser EXCEPT
                                                      !.id = id.id]]]
               /\ pc' = [pc EXCEPT ![p] = "get_user_find"]
    /\ UNCHANGED <<users, accounts, started, completed>>
    /\ UNCHANGED jwtVars

\* execute treating a failed find_by_id as a user that does not exist
GetUserFindReportsNotFound(p, fault) ==
    /\ pc[p] = "get_user_find"
    /\ LET r == find_by_id(req[p].user.id, fault)
       IN IF r.exc # "none" \/ ~r.found
            THEN req' = [req EXCEPT
                           ![p].queries = @ + 1,
                           ![p].raw = fault,
                           ![p].repo_err = r.exc,
                           ![p].faulted = fault # "none",
                           ![p].outcome = "AuthenticatedUserNotFoundError"]
          ELSE req' = [req EXCEPT ![p].queries = @ + 1,
                                  ![p].found = TRUE,
                                  ![p].user = r.user,
                                  ![p].outcome = "user"]
    /\ pc' = [pc EXCEPT ![p] = "done"]
    /\ UNCHANGED <<users, accounts, started, completed>>
    /\ UNCHANGED jwtVars

\* await user_repository.find_by_id(user_id), then the None check
GetUserFind(p, fault) ==
    /\ pc[p] = "get_user_find"
    /\ LET r == find_by_id(req[p].user.id, fault)
       IN IF r.exc # "none"
            \* except UserManagementError
            THEN req' = [req EXCEPT
                           ![p].queries = @ + 1,
                           ![p].raw = fault,
                           ![p].repo_err = r.exc,
                           ![p].cause = r.exc,
                           ![p].faulted = fault # "none",
                           ![p].outcome = "AccessTokenVerificationError"]
          ELSE IF ~r.found
            THEN req' = [req EXCEPT
                           ![p].queries = @ + 1,
                           ![p].outcome = "AuthenticatedUserNotFoundError"]
          ELSE req' = [req EXCEPT ![p].queries = @ + 1,
                                  ![p].found = TRUE,
                                  ![p].user = r.user,
                                  ![p].outcome = "user"]
    /\ pc' = [pc EXCEPT ![p] = "done"]
    /\ UNCHANGED <<users, accounts, started, completed>>
    /\ UNCHANGED jwtVars

(***************************************************************************)
(* create_container, get_container and reset_container                      *)
(* (infrastructure/di.py), called by create_app and lifespan (main.py)     *)
(***************************************************************************)
\* settings_override is None or a Settings object of the caller
SettingsOverrides == {None, "settings_override"}

\* what a call answered: the Container, its settings as the caller sees
\* them, and the resets completed before the call
Answer(d, fn, settings_override) ==
    [fn |-> fn, id |-> d._container,
     settings |-> d.built[d._container].settings,
     settings_override |-> settings_override, resets |-> d.resets]

\* create_container without its early return: every call builds a Container
create_container_always_builds(d, settings_override) ==
    [d EXCEPT
        !._container = Len(d.built) + 1,
        !.built = Append(d.built,
                         [settings |-> IF settings_override # None
                                         THEN settings_override
                                         ELSE "settings",
                          installed |-> TRUE, closed |-> FALSE])]

\* create_container: the module state after the call
create_container(d, settings_override) ==
    IF d._container # 0
      THEN d
      ELSE [d EXCEPT
              !._container = Len(d.built) + 1,
              !.built = Append(d.built,
                               [settings |-> IF settings_override # None
                                               THEN settings_override
                                               ELSE "settings",
                                installed |-> TRUE, closed |-> FALSE])]

\* get_container: create_container() when _container is None
get_container(d) == IF d._container = 0 THEN create_container(d, None) ELSE d

\* container = create_container(settings_override), as create_app does with
\* no override
CreateContainer(settings_override) ==
    /\ Cardinality(di.returned) < MaxContainerCalls
    /\ di._container # 0 \/ Len(di.built) < MaxContainers
    /\ LET d == create_container(di, settings_override)
       IN di' = [d EXCEPT !.returned =
                    @ \cup {Answer(d, "create_container", settings_override)}]
    /\ UNCHANGED <<now, ticks, tokens, last, tz>>
    /\ UNCHANGED storeVars

\* container = get_container(), as lifespan does
GetContainer ==
    /\ Cardinality(di.returned) < MaxContainerCalls
    /\ di._container # 0 \/ Len(di.built) < MaxContainers
    /\ LET d == get_container(di)
       IN di' = [d EXCEPT !.returned =
                    @ \cup {Answer(d, "get_container", None)}]
    /\ UNCHANGED <<now, ticks, tokens, last, tz>>
    /\ UNCHANGED storeVars

\* _container = None
cleared(d) ==
    [d EXCEPT
        !._container = 0,
        !.resets = IF d._container # 0 THEN @ + 1 ELSE @,
        !.built = [i \in 1..Len(d.built) |->
                      IF i = d._container
                        THEN [d.built[i] EXCEPT !.installed = FALSE]
                        ELSE d.built[i]]]

\* Database.close() has returned for Container c
closed(d, c) == [d EXCEPT !.built[c].closed = TRUE]

\* await reset_container() up to the point where it first waits: nothing
\* when _container is None; Database.close() returns at once when no engine
\* was created, and then _container is cleared in the same step; otherwise
\* the call waits in engine.dispose() and asyncio.sleep(0.1)
ResetContainer(p, engine_created) ==
    /\ di.waiting[p] = 0
    /\ di._container # 0
    /\ di' = IF engine_created
               THEN [di EXCEPT !.waiting[p] = di._container]
               ELSE cleared(closed(di, di._container))
    /\ UNCHANGED <<now, ticks, tokens, last, tz>>
    /\ UNCHANGED storeVars

\* Database.close() returns and reset_container assigns _container = None
ResetResume(p) ==
    /\ di.waiting[p] # 0
    /\ di' = [cleared(closed(di, di.waiting[p])) EXCEPT !.waiting[p] = 0]
    /\ UNCHANGED <<now, ticks, tokens, last, tz>>
    /\ UNCHANGED storeVars

(***************************************************************************)
(* LoginUseCase.execute (application/usecase/login.py) and                 *)
(* Auth0Client.get_authorization_redirect (infrastructure/auth0_client.py) *)
(***************************************************************************)
\* f"{api_base}{settings.base_redirect_path}/api/v1/auth/callback"
CallbackPath == "/api/v1/auth/callback"
redirect_uri == <<ServiceUrl, CallbackPath>>

\* what oauth.auth0.authorize_redirect does: it answers with a redirect or
\* raises
AuthorizeOutcomes == {"redirect", "OAuthError", "RuntimeError"}

\* Auth0Client.get_authorization_redirect: every exception is wrapped
get_authorization_redirect(uri, connection, authorize) ==
    IF authorize = "redirect"
      THEN [exc |-> "none",
            response |-> [url |-> uri, connection |-> connection]]
      ELSE [exc |-> "AuthRedirectGenerationError",
            response |-> NoReq.response]

\* what an IAuthClient can raise towards the use case
AuthClientFailures == {"none", "AuthRedirectGenerationError", "RuntimeError"}

\* the except clauses of LoginUseCase.execute letting the exception pass
LoginErrorOfUnwrapped(exc) == exc

\* the except clauses of LoginUseCase.execute
LoginErrorOf(exc) ==
    IF exc = "AuthRedirectGenerationError"
      THEN "AuthRedirectGenerationError"
      ELSE "AuthRedirectGenerationError"

\* the whole call; client_exc is what another IAuthClient than Auth0Client
\* raises, "none" for Auth0Client
LoginExecute(p, authorize, client_exc) ==
    /\ \A q \in Procs : pc[q] = "idle"
    /\ LET fresh == [NoReq EXCEPT
                       !.kind = "login",
                       !.at = now,
                       !.pre = [users |-> users, accounts |-> accounts]]
           r == IF client_exc # "none"
                  THEN [exc |-> client_exc, response |-> NoReq.response]
                  ELSE get_authorization_redirect(redirect_uri,
                                                  "google-oauth2", authorize)
       IN IF r.exc # "none"
            THEN req' = [req EXCEPT ![p] =
                           [fresh EXCEPT !.raw = IF client_exc # "none"
                                                   THEN client_exc
                                                   ELSE authorize,
                                         !.cause = r.exc,
                                         !.outcome = LoginErrorOf(r.exc)]]
            ELSE req' = [req EXCEPT ![p] =
                           [fresh EXCEPT !.response = r.response,
                                         !.outcome = "redirect"]]
    /\ pc' = [pc EXCEPT ![p] = "done"]
    /\ UNCHANGED <<users, accounts, started, completed>>
    /\ UNCHANGED jwtVars

(***************************************************************************)
(* LogoutUseCase.execute (application/usecase/logout.py)                   *)
(***************************************************************************)
AUTH0_DOMAIN == "your-domain.auth0.com"
AUTH0_CLIENT_ID == "your-client-id"
LOGOUT_RETURN_URL ==
    "http://localhost:5174/backend/api/v1/auth/logout/callback"

logout_url ==
    <<"https://", AUTH0_DOMAIN, "/v2/logout?", "returnTo=", LOGOUT_RETURN_URL,
      "&client_id=", AUTH0_CLIENT_ID>>

\* the mark a served logout leaves in the history of the behaviour
LoggedOut == [sub |-> "logout", uid |-> 0]

\* a logout that deletes the rows of the users table
LogoutExecuteDeletesUsers(p, format_ok) ==
    /\ \A q \in Procs : pc[q] = "idle"
    /\ req' = [req EXCEPT ![p] =
                 [NoReq EXCEPT
                    !.kind = "logout", !.at = now,
                    !.pre = [users |-> users, accounts |-> accounts],
                    !.response = [url |-> logout_url, connection |-> ""],
                    !.outcome = "logout_url"]]
    /\ pc' = [pc EXCEPT ![p] = "done"]
    /\ users' = {}
    /\ accounts' = {}
    /\ completed' = completed \cup {LoggedOut}
    /\ UNCHANGED started
    /\ UNCHANGED jwtVars

\* the whole call: it formats the provider's logout URL and returns it, or
\* the formatting raises and LogoutURLGenerationError is raised
LogoutExecute(p, format_ok) ==
    /\ \A q \in Procs : pc[q] = "idle"
    /\ LET fresh == [NoReq EXCEPT
                       !.kind = "logout",
                       !.at = now,
                       !.pre = [users |-> users, accounts |-> accounts]]
       IN IF format_ok
            THEN req' = [req EXCEPT ![p] =
                           [fresh EXCEPT
                              !.response = [url |-> logout_url,
                                            connection |-> ""],
                              !.outcome = "logout_url"]]
            ELSE req' = [req EXCEPT ![p] =
                           [fresh EXCEPT
                              !.cause = "Exception",
                              !.faulted = TRUE,
                              !.outcome = "LogoutURLGenerationError"]]
    /\ pc' = [pc EXCEPT ![p] = "done"]
    /\ completed' = completed \cup {LoggedOut}
    /\ UNCHANGED <<users, accounts, started>>
    /\ UNCHANGED jwtVars

(***************************************************************************)
(* Specifications                                                          *)
(***************************************************************************)
Init == JwtInit /\ StoreInit /\ RequestInit

JwtNext ==
    \/ \E sub \in Subjects : IssueAccessToken(sub)
    \/ \E sub \in Subjects : IssueRefreshToken(sub)
    \/ \E d \in ClockSteps : Tick(d)
    \/ \E tok \in Presentable : VerifyAccessToken(tok)
    \/ \E tok \in Presentable : VerifyRefreshToken(tok)

CallbackNext ==
    \/ \E p \in Procs, resp \in ProviderResponses : CallbackBegin(p, resp)
    \/ \E p \in Procs, fault \in StorageFaults : Find(p, fault)
    \/ \E p \in Procs, fault \in StorageFaults : SaveSelect(p, fault)
    \/ \E p \in Procs, fault \in StorageFaults : SaveFlush(p, fault)
    \/ \E p \in Procs, fault \in StorageFaults : SaveCommit(p, fault)
    \/ \E p \in Procs, encode_ok \in BOOLEAN : IssueTokens(p, encode_ok)
    \/ \E p \in Procs : Finish(p)

SaveNext ==
    \/ \E p \in SaveProcs, id \in 1..MaxIds, email \in Emails,
         keep \in SUBSET AccountKeys :
          BeginSave(p, id, email, NameAt(email),
                    IF PictureAt(email) = Absent THEN None
                    ELSE PictureAt(email),
                    SelectSeq(KeyOrder, LAMBDA k : k \in keep))
    \/ \E p \in SaveProcs, fault \in StorageFaults : SaveSelect(p, fault)
    \/ \E p \in SaveProcs, fault \in StorageFaults : SaveFlush(p, fault)
    \/ \E p \in SaveProcs, fault \in StorageFaults : SaveCommit(p, fault)
    \/ \E p \in SaveProcs : Interrupt(p)
    \/ \E p \in SaveProcs : Finish(p)

AggregateNext ==
    \/ \E p \in SaveProcs, id \in 1..MaxIds, email \in Emails,
         fault \in StorageFaults : BeginEdit(p, id, email, fault)
    \/ \E p \in SaveProcs, key \in AccountKeys : AddLinkedAccount(p, key)
    \/ \E p \in SaveProcs : SubmitSave(p)
    \/ \E p \in SaveProcs : SaveSelect(p, "none")
    \/ \E p \in SaveProcs : SaveFlush(p, "none")
    \/ \E p \in SaveProcs : SaveCommit(p, "none")
    \/ \E p \in SaveProcs : Finish(p)

RefreshNext ==
    \/ \E sub \in Subjects : IssueAccessToken(sub)
    \/ \E sub \in Subjects : IssueRefreshToken(sub)
    \/ \E d \in ClockSteps : Tick(d)
    \/ \E p \in SaveProcs, tok \in ClientTokens, encode_ok \in BOOLEAN :
          RefreshTokenExecute(p, tok, encode_ok)
    \/ \E p \in SaveProcs : Finish(p)

\* the profile endpoint next to a store that callers of save fill
GetUserNext ==
    \/ \E p \in SaveProcs, id \in 1..MaxIds, email \in Emails :
          BeginSave(p, id, email, NameAt(email),
                    IF PictureAt(email) = Absent THEN None
                    ELSE PictureAt(email),
                    <<>>)
    \/ \E p \in SaveProcs : SaveSelect(p, "none")
    \/ \E p \in SaveProcs : SaveFlush(p, "none")
    \/ \E p \in SaveProcs : SaveCommit(p, "none")
    \/ \E d \in ClockSteps : Tick(d)
    \/ \E p \in SaveProcs, tok \in AccessTokensSent : GetUserVerify(p, tok)
    \/ \E p \in SaveProcs, fault \in StorageFaults : GetUserFind(p, fault)
    \/ \E p \in SaveProcs : Finish(p)

\* what a client can send as its refresh token: the same alterations
RefreshTokensSent == AccessTokensSent

\* the login, logout, refresh and profile endpoints next to a store that
\* callers of save fill
SessionNext ==
    \/ \E p \in SaveProcs, id \in 1..MaxIds, email \in Emails :
          BeginSave(p, id, email, NameAt(email),
                    IF PictureAt(email) = Absent THEN None
                    ELSE PictureAt(email),
                    <<>>)
    \/ \E p \in SaveProcs : SaveSelect(p, "none")
    \/ \E p \in SaveProcs : SaveFlush(p, "none")
    \/ \E p \in SaveProcs : SaveCommit(p, "none")
    \/ \E d \in ClockSteps : Tick(d)
    \/ \E p \in SaveProcs, authorize \in AuthorizeOutcomes,
         client_exc \in AuthClientFailures :
          LoginExecute(p, authorize, client_exc)
    \/ \E p \in SaveProcs, format_ok \in BOOLEAN : LogoutExecute(p, format_ok)
    \/ \E p \in SaveProcs, tok \in RefreshTokensSent, encode_ok \in BOOLEAN :
          RefreshTokenExecute(p, tok, encode_ok)
    \/ \E p \in SaveProcs, encode_ok \in BOOLEAN : RefreshAgain(p, encode_ok)
    \/ \E p \in SaveProcs, tok \in AccessTokensSent : GetUserVerify(p, tok)
    \/ \E p \in SaveProcs, fault \in StorageFaults : GetUserFind(p, fault)
    \/ \E p \in SaveProcs : Finish(p)

\* every endpoint handed the tokens of the other verifier next to its own:
\* the callback an internal token as id_token, the refresh and profile
\* endpoints a provider ID token
TokensOfEitherKind == IssuedAtStart \cup ValidIdTokens

CrossResponses ==
    {[exchange_ok |-> TRUE, has_id_token |-> TRUE, id_token |-> tok,
      jwks_ok |-> TRUE] : tok \in TokensOfEitherKind}

CrossNext ==
    \/ \E p \in Procs, resp \in CrossResponses : CallbackBegin(p, resp)
    \/ \E p \in Procs : Find(p, "none")
    \/ \E p \in Procs : SaveSelect(p, "none")
    \/ \E p \in Procs : SaveFlush(p, "none")
    \/ \E p \in Procs : SaveCommit(p, "none")
    \/ \E p \in Procs : IssueTokens(p, TRUE)
    \/ \E p \in SaveProcs, tok \in TokensOfEitherKind :
          RefreshTokenExecute(p, tok, TRUE)
    \/ \E p \in SaveProcs, tok \in TokensOfEitherKind : GetUserVerify(p, tok)
    \/ \E p \in SaveProcs : GetUserFind(p, "none")
    \/ \E p \in Procs : Finish(p)

\* the token functions in a process whose local zone is any of Zones
ZonedInit ==
    /\ now = 0
    /\ tz \in Zones
    /\ di = NoContainers
    /\ ticks = 0
    /\ tokens = {}
    /\ last = NoVerification
    /\ StoreInit
    /\ RequestInit

ZonedNext ==
    \/ \E sub \in Subjects : IssueAccessToken(sub)
    \/ \E sub \in Subjects : IssueRefreshToken(sub)
    \/ \E d \in ClockSteps : Tick(d)
    \/ \E r \in tokens : VerifyAccessToken(r.tok)
    \/ \E r \in tokens : VerifyRefreshToken(r.tok)

\* a caller that reads the linked_accounts property of the aggregate it edits
\* and operates on the list it got
ViewNext ==
    \/ \E p \in SaveProcs, id \in 1..MaxIds, email \in Emails :
          BeginEdit(p, id, email, "none")
    \/ \E p \in SaveProcs, key \in AccountKeys : AddLinkedAccount(p, key)
    \/ \E p \in SaveProcs : ReadLinkedAccounts(p)
    \/ \E p \in SaveProcs, op \in ListOps, key \in AccountKeys :
          MutateList(p, op, key)

\* units of work run one after another inside get_session or get_db
ScopeNext ==
    \/ \E p \in SaveProcs, scope \in Scopes : EnterScope(p, scope)
    \/ \E p \in SaveProcs, email \in Emails, outcome \in BodyOutcomes :
          ScopeBody(p, email, outcome)
    \/ \E p \in SaveProcs, fault \in StorageFaults : ScopeCommit(p, fault)
    \/ \E p \in SaveProcs, fault \in StorageFaults : ScopeRollback(p, fault)
    \/ \E p \in SaveProcs : ScopeClose(p)
    \/ \E p \in SaveProcs : ScopeExit(p)
    \/ \E p \in SaveProcs : Finish(p)

\* a client that keeps a session alive with the refresh endpoint alone: it
\* presents a token, then the token it was handed or the one it presented
\* before, while the clock advances
RotationNext ==
    \/ \E d \in ClockSteps : Tick(d)
    \/ \E p \in SaveProcs, tok \in RefreshTokensSent, encode_ok \in BOOLEAN :
          RefreshTokenExecute(p, tok, encode_ok)
    \/ \E p \in SaveProcs, encode_ok \in BOOLEAN : RefreshAgain(p, encode_ok)
    \/ \E p \in SaveProcs, encode_ok \in BOOLEAN : RefreshSame(p, encode_ok)
    \/ \E p \in SaveProcs : Finish(p)

\* application start-up and tests calling the three functions of
\* infrastructure.di, with resets that may overlap
ContainerNext ==
    \/ \E settings_override \in SettingsOverrides :
          CreateContainer(settings_override)
    \/ GetContainer
    \/ \E p \in Procs, engine_created \in BOOLEAN :
          ResetContainer(p, engine_created)
    \/ \E p \in Procs : ResetResume(p)

SpecJwt == Init /\ [][JwtNext]_vars
SpecCallback == Init /\ [][CallbackNext]_vars
SpecSave == Init /\ [][SaveNext]_vars
SpecAggregate == Init /\ [][AggregateNext]_vars
SpecRefresh == Init /\ [][RefreshNext]_vars
SpecGetUser == Init /\ [][GetUserNext]_vars
SpecSession == Init /\ [][SessionNext]_vars
SpecZoned == ZonedInit /\ [][ZonedNext]_vars
SpecCross == Init /\ [][CrossNext]_vars
SpecView == Init /\ [][ViewNext]_vars
SpecScope == Init /\ [][ScopeNext]_vars
SpecRotation == Init /\ [][RotationNext]_vars
SpecContainer == Init /\ [][ContainerNext]_vars

(***************************************************************************)
(* Claims about the token codec (SpecJwt)                                  *)
(***************************************************************************)
Lifetime(kind) == IF kind = "access" THEN AccessLifetime ELSE RefreshLifetime

\* the latest verification presented issue record r, unaltered, to the
\* verifier of kind fn
Presented(r, fn) == last.fn = fn /\ last.token = r.tok

\* C1: a token issued for a subject and kind, presented to the verifier of
\* that kind before its lifetime has run out, is accepted and the payload
\* returned carries the subject it was issued for.
C1_RoundTrip ==
    \A r \in tokens :
        (Presented(r, r.kind) /\ last.at < r.at + Lifetime(r.kind))
            => (last.err = "none" /\ last.payload.sub = r.sub)

C1_Witness ==
    \E r \in tokens :
        /\ r.kind = "refresh"
        /\ Presented(r, "refresh")
        /\ last.at >= r.at + AccessLifetime
        /\ last.err = "none"
        /\ last.payload.sub = r.sub

\* C2: an issued access token presented to the refresh verifier, and an
\* issued refresh token presented to the access verifier, is rejected with
\* InvalidTokenTypeError and with no other error.
C2_WrongKindOutcome ==
    \A r \in tokens :
        \A fn \in TokenTypes \ {r.kind} :
            Presented(r, fn) => last.err = "InvalidTokenTypeError"

\* C10: an issued token presented to the verifier of its own kind after its
\* exp has passed is rejected with TokenExpiredError.
C10_ExpiredOutcome ==
    \A r \in tokens :
        (Presented(r, r.kind) /\ last.at > r.tok.payload.exp)
            => last.err = "TokenExpiredError"

C10_Witness ==
    \E r \in tokens :
        /\ r.kind = "refresh"
        /\ Presented(r, r.kind)
        /\ last.at > r.tok.payload.exp
        /\ last.err = "TokenExpiredError"

\* the secret the verifier of kind fn checks signatures under
SecretOfKind(fn) ==
    IF fn = "access" THEN settings.ACCESS_TOKEN_SECRET_KEY
    ELSE settings.REFRESH_TOKEN_SECRET_KEY

\* C11: a verifier reports a structurally invalid token as TokenDecodeError,
\* a well-formed token whose signature does not verify, or whose issuer or
\* audience is wrong, as InvalidTokenSignatureError, and a well-formed,
\* correctly signed token past its exp as TokenExpiredError.
C11_FailureKinds ==
    last.fn \in TokenTypes
    => LET tok == last.token
           signed == tok.sig = Sign(SecretOfKind(last.fn), tok.payload)
       IN /\ ~tok.wellformed => last.err = "TokenDecodeError"
          /\ (tok.wellformed /\ ~signed)
                => last.err = "InvalidTokenSignatureError"
          /\ (tok.wellformed /\ signed /\ tok.payload.exp < last.at)
                => last.err = "TokenExpiredError"
          /\ (tok.wellformed /\ signed /\ tok.payload.exp > last.at
              /\ (tok.payload.iss # ServiceUrl \/ tok.payload.aud # ServiceUrl))
                => last.err = "InvalidTokenSignatureError"

(***************************************************************************)
(* Claims about concurrent callbacks (SpecCallback)                        *)
(***************************************************************************)
KeysOfRows(rows) == {KeyOf(a) : a \in rows}

CallbackOutcomes ==
    {"tokens", "GetTokenFromProviderError", "MissingIdTokenError",
     "InternalTokenCreationError"}

\* request p is a callback that has returned or raised
CallbackDone(p) == pc[p] = "done" /\ req[p].kind = "callback"

\* request p looked its identity up, found no user and went on to create one
CreatesUser(p) ==
    /\ req[p].kind = "callback"
    /\ ~req[p].found
    /\ req[p].user # NoUser

\* C3: of two callbacks that both looked up the same new identity, both found
\* no user and both ran without an infrastructure fault, exactly one returns
\* tokens and the other raises InternalTokenCreationError caused by
\* DataIntegrityError.
C3_FirstLoginRace ==
    \A p, q \in Procs :
        (/\ p # q
         /\ CallbackDone(p) /\ CallbackDone(q)
         /\ CreatesUser(p) /\ CreatesUser(q)
         /\ req[p].claim.sub = req[q].claim.sub
         /\ ~req[p].faulted /\ ~req[q].faulted)
        => \/ /\ req[p].outcome = "tokens"
              /\ req[q].outcome = "InternalTokenCreationError"
              /\ req[q].cause = "DataIntegrityError"
           \/ /\ req[q].outcome = "tokens"
              /\ req[p].outcome = "InternalTokenCreationError"
              /\ req[p].cause = "DataIntegrityError"

\* C4: no two committed linked_accounts rows carry the same
\* (provider_name, provider_user_id).
C4_LinkedAccountKeyUnique ==
    \A a, b \in accounts : KeyOf(a) = KeyOf(b) => a = b

\* C6: a callback that starts after another callback for the same provider
\* subject has returned tokens, and itself returns tokens, resolves to the
\* same user id, creates no user, writes nothing, and issues both tokens
\* for that id.
C6_IdempotentFindOrCreate ==
    \A p \in Procs :
        (CallbackDone(p) /\ req[p].outcome = "tokens")
        => \A r \in req[p].prior :
              r.sub = req[p].claim.sub
              => /\ req[p].user.id = r.uid
                 /\ ~req[p].created
                 /\ req[p].writes = 0
                 /\ req[p].access_token.payload.sub = str_of_uuid(r.uid)
                 /\ req[p].refresh_token.payload.sub = str_of_uuid(r.uid)

C6_Witness ==
    \E p \in Procs :
        /\ CallbackDone(p)
        /\ req[p].outcome = "tokens"
        /\ req[p].found
        /\ \E r \in req[p].prior :
              r.sub = req[p].claim.sub /\ req[p].user.id = r.uid
        /\ \E u \in users : u.id = req[p].user.id /\ u.email # req[p].claim.email

\* C12: after a callback that found its identity already linked to a user
\* has returned tokens, the persisted row of that user carries the email,
\* name and picture of the ID token verified in that callback.
C12_ProfileRefreshed ==
    \A p \in Procs :
        (CallbackDone(p) /\ req[p].outcome = "tokens" /\ req[p].found)
        => \E u \in users :
              /\ u.id = req[p].user.id
              /\ u.email = req[p].claim.email
              /\ u.name = req[p].claim.name
              /\ u.picture = req[p].claim.picture

\* C12 as amended: after a callback that found its identity already linked
\* to a user has returned tokens, the persisted row and linked accounts of
\* that user are the ones the lookup read, whatever the ID token's claims;
\* the callback has written nothing.
C12_ReturningUserUntouched ==
    \A p \in Procs :
        (CallbackDone(p) /\ req[p].outcome = "tokens" /\ req[p].found)
        => LET user == req[p].user
           IN /\ UserModel(user.id, user.email, user.name, user.picture)
                    \in users
              /\ KeysOfRows(LinkedAccountsOf(accounts, user.id))
                    = KeysOfUser(user)
              /\ req[p].writes = 0
              /\ ~req[p].created

C12_Witness ==
    \E p \in Procs :
        /\ CallbackDone(p) /\ req[p].outcome = "tokens" /\ req[p].found
        /\ req[p].claim.email # req[p].user.email
        /\ req[p].claim.name # req[p].user.name
        /\ req[p].claim.picture # req[p].user.picture

\* C13: a callback that found no user for its verified subject and returned
\* tokens has written exactly one users row, carrying the claim's email, name
\* and picture, and exactly one linked_accounts row, ("auth0", subject), for
\* it; its access token verifies as an access token and its refresh token as
\* a refresh token, both with sub the text of the new user's id.
C13_NewUserCallback ==
    \A p \in Procs :
        (CallbackDone(p) /\ req[p].outcome = "tokens" /\ ~req[p].found)
        => LET c == req[p].claim
               uid == req[p].user.id
               a == verify_and_decode_access_token(req[p].access_token, now)
               r == verify_and_decode_refresh_token(req[p].refresh_token, now)
           IN /\ req[p].created
              /\ req[p].writes = 2
              /\ UserModel(uid, c.email, c.name, c.picture) \in users
              /\ Cardinality({u \in users : u.id = uid}) = 1
              /\ {KeyOf(x) : x \in LinkedAccountsOf(accounts, uid)}
                    = {<<"auth0", c.sub>>}
              /\ Cardinality(LinkedAccountsOf(accounts, uid)) = 1
              /\ a.err = "none" /\ a.payload.sub = str_of_uuid(uid)
              /\ r.err = "none" /\ r.payload.sub = str_of_uuid(uid)

C13_Witness ==
    \E p \in Procs :
        /\ CallbackDone(p) /\ req[p].outcome = "tokens" /\ ~req[p].found
        /\ req[p].created
        /\ req[p].claim.picture # None
        /\ Cardinality(users) = 2

\* C8: a finished callback has returned tokens or raised one of
\* GetTokenFromProviderError, MissingIdTokenError, InternalTokenCreationError.
C8_ClosedCallbackOutcomes ==
    \A p \in Procs : CallbackDone(p) => req[p].outcome \in CallbackOutcomes

(***************************************************************************)
(* Claims about save (SpecSave)                                            *)
(***************************************************************************)
SaveDone(p) == pc[p] = "done" /\ req[p].kind = "save"

\* C5: after a successful save of an existing user with persisted keys P and
\* in-memory keys M, the user's persisted keys are M, the rows gone are those
\* of P \ M, the rows new are those of M \ P, every row of P \cap M is the
\* row it was, and no other user's rows changed.
C5_DiffSync ==
    \A p \in Procs :
        (SaveDone(p) /\ req[p].outcome = "saved" /\ req[p].tx.mode = "update")
        => LET uid == req[p].user.id
               before == LinkedAccountsOf(req[p].pre.accounts, uid)
               after == LinkedAccountsOf(accounts, uid)
               P == KeysOfRows(before)
               M == KeysOfUser(req[p].user)
           IN /\ KeysOfRows(after) = M
              /\ Cardinality(after) = Cardinality(M)
              /\ KeysOfRows(before \ after) = P \ M
              /\ KeysOfRows(after \ before) = M \ P
              /\ \A a \in before : KeyOf(a) \in M => a \in after
              /\ accounts \ after = req[p].pre.accounts \ before

C5_Witness ==
    \E p \in Procs :
        /\ SaveDone(p) /\ req[p].outcome = "saved"
        /\ req[p].tx.mode = "update"
        /\ LET before == LinkedAccountsOf(req[p].pre.accounts, req[p].user.id)
               P == KeysOfRows(before)
               M == KeysOfUser(req[p].user)
           IN P \ M # {} /\ M \ P # {} /\ P \cap M # {}

\* the store a save of user leaves when it commits, given the store before
SavedUsers(pre, user) ==
    {u \in pre.users : u.id # user.id}
    \cup {UserModel(user.id, user.email, user.name, user.picture)}

\* C7: while a save is running, and after it has failed or was interrupted,
\* the committed users and linked accounts are those before the save; after
\* it has succeeded the user's row and key set are those of the in-memory
\* user and every other row is as before.
C7_AtomicSave ==
    \A p \in Procs :
        req[p].kind = "save"
        => IF pc[p] = "done" /\ req[p].outcome = "saved"
             THEN LET uid == req[p].user.id
                      after == LinkedAccountsOf(accounts, uid)
                  IN /\ users = SavedUsers(req[p].pre, req[p].user)
                     /\ KeysOfRows(after) = KeysOfUser(req[p].user)
                     /\ accounts \ after =
                           req[p].pre.accounts
                             \ LinkedAccountsOf(req[p].pre.accounts, uid)
             ELSE /\ users = req[p].pre.users
                  /\ accounts = req[p].pre.accounts

C7_Witness ==
    \E p \in Procs :
        /\ SaveDone(p)
        /\ req[p].outcome # "saved"
        /\ req[p].tx.mode = "insert"
        /\ req[p].tx.inserts # {}
        /\ users # {}

\* C9: a storage error during save leaves save as DataIntegrityError when it
\* is a constraint violation, as DatabaseConnectionError when it is a
\* connectivity failure, and as UserCreationError or UserUpdateError
\* otherwise.
C9_SaveErrorTaxonomy ==
    \A p \in Procs :
        (SaveDone(p) /\ req[p].raw # "none")
        => IF req[p].raw = "IntegrityError"
             THEN req[p].repo_err = "DataIntegrityError"
           ELSE IF req[p].raw = "OperationalError"
             THEN req[p].repo_err = "DatabaseConnectionError"
           ELSE req[p].repo_err \in {"UserCreationError", "UserUpdateError"}

\* request p is a save of an existing user whose in-memory key set is the
\* persisted one, past its select
ResavesSameKeys(p) ==
    /\ req[p].kind = "save"
    /\ req[p].tx.mode = "update"
    /\ KeysOfUser(req[p].user)
          = KeysOfRows(LinkedAccountsOf(req[p].pre.accounts, req[p].user.id))

\* C16: a save of an existing user whose in-memory key set equals the
\* persisted one schedules no linked-account insert and no delete; the
\* linked_accounts table stays as it was, and when the user's fields are the
\* stored ones too the users table stays as it was and nothing is written.
C16_IdempotentSave ==
    \A p \in Procs :
        ResavesSameKeys(p)
        => LET user == req[p].user
               row == UserModel(user.id, user.email, user.name, user.picture)
           IN /\ req[p].tx.inserts = {}
              /\ req[p].tx.deletes = {}
              /\ accounts = req[p].pre.accounts
              /\ row \in req[p].pre.users
                    => /\ users = req[p].pre.users
                       /\ req[p].writes = 0

C16_Witness ==
    \E p \in Procs :
        /\ ResavesSameKeys(p)
        /\ SaveDone(p) /\ req[p].outcome = "saved"
        /\ Cardinality(KeysOfUser(req[p].user)) >= 2
        /\ UserModel(req[p].user.id, req[p].user.email, req[p].user.name,
                     req[p].user.picture) \in req[p].pre.users
        /\ Cardinality(accounts) > Cardinality(KeysOfUser(req[p].user))

(***************************************************************************)
(* Claims about the User aggregate (SpecAggregate)                         *)
(***************************************************************************)
\* C14: no aggregate a request holds, built by add_linked_account calls or
\* rebuilt from storage and then extended, has two linked accounts with the
\* same (provider_name, provider_user_id).
C14_AggregateKeysDistinct ==
    \A p \in Procs :
        LET las == req[p].user.linked_accounts
        IN \A i, j \in 1..Len(las) : KeyOf(las[i]) = KeyOf(las[j]) => i = j

C14_Witness ==
    \E p \in Procs :
        /\ pc[p] = "edit"
        /\ req[p].found
        /\ req[p].calls >= 2
        /\ req[p].cause = "DuplicateLinkedAccountError"
        /\ Len(req[p].user.linked_accounts) = 3

\* C15: right after add_linked_account was called with a key the aggregate
\* already held, the call has raised DuplicateLinkedAccountError, the
\* aggregate is the one before the call, no repository call was made by it
\* and nothing has been sent to or changed in the store.
C15_DuplicateRejected ==
    \A p \in Procs :
        (/\ pc[p] = "edit"
         /\ req[p].calls > 0
         /\ req[p].arg \in KeysOfUser(req[p].prev.user))
        => /\ req[p].cause = "DuplicateLinkedAccountError"
           /\ req[p].user = req[p].prev.user
           /\ req[p].queries = req[p].prev.queries
           /\ req[p].tx = NoTx
           /\ req[p].writes = 0
           /\ users = req[p].pre.users
           /\ accounts = req[p].pre.accounts

C15_Witness ==
    \E p \in Procs :
        /\ pc[p] = "edit"
        /\ req[p].calls > 0
        /\ req[p].arg \in KeysOfUser(req[p].prev.user)
        /\ req[p].cause = "DuplicateLinkedAccountError"
        /\ req[p].found
        /\ accounts # {}

(***************************************************************************)
(* Claims about RefreshTokenUseCase (SpecRefresh)                          *)
(***************************************************************************)
RefreshDone(p) == pc[p] = "done" /\ req[p].kind = "refresh"

\* the token is malformed, not signed with the refresh secret (as every
\* access token is), past its exp at time t, or not of type refresh
UnfitForRefresh(tok, t) ==
    \/ ~tok.wellformed
    \/ tok.sig # Sign(settings.REFRESH_TOKEN_SECRET_KEY, tok.payload)
    \/ tok.payload.exp < t
    \/ tok.payload.type # "refresh"

\* C17: a refresh called with a malformed, wrongly signed, expired or
\* wrong-kind token has raised TokenRefreshError and returned no token.
C17_RefreshFailure ==
    \A p \in Procs :
        (RefreshDone(p) /\ UnfitForRefresh(req[p].presented, req[p].at))
        => /\ req[p].outcome = "TokenRefreshError"
           /\ req[p].access_token = GarbageToken
           /\ req[p].refresh_token = GarbageToken

C17_Witness ==
    \E p \in Procs :
        /\ RefreshDone(p)
        /\ \E r \in tokens : r.kind = "refresh" /\ r.tok = req[p].presented
        /\ req[p].presented.payload.exp < req[p].at
        /\ req[p].cause = "TokenExpiredError"
        /\ req[p].outcome = "TokenRefreshError"

(***************************************************************************)
(* Claims about GetAuthenticatedUserUseCase (SpecGetUser)                  *)
(***************************************************************************)
GetUserDone(p) == pc[p] = "done" /\ req[p].kind = "get_user"

\* a well-formed token carrying the signature of a secret that is not the
\* access secret
Forged(tok) ==
    /\ tok.wellformed
    /\ \E key \in SigningKeys \ {settings.ACCESS_TOKEN_SECRET_KEY} :
          tok.sig = Sign(key, tok.payload)

\* an access token of this deployment, correctly signed, not yet at its exp
\* at time t, whose sub is the text of a user id
ValidAccessToken(tok, t) ==
    /\ tok.wellformed
    /\ tok.sig = Sign(settings.ACCESS_TOKEN_SECRET_KEY, tok.payload)
    /\ tok.payload.exp > t
    /\ tok.payload.iss = ServiceUrl /\ tok.payload.aud = ServiceUrl
    /\ tok.payload.type = "access"
    /\ tok.payload.sub \in {str_of_uuid(i) : i \in 1..MaxIds}

\* C18: a profile request with a forged access token ends at once with
\* AccessTokenVerificationError, never reaches the repository and never
\* ends with AuthenticatedUserNotFoundError, whether a user with the token's
\* sub exists or not.
C18_ForgedToken ==
    \A p \in Procs :
        (req[p].kind = "get_user" /\ Forged(req[p].presented))
        => /\ pc[p] = "done"
           /\ req[p].outcome = "AccessTokenVerificationError"
           /\ req[p].queries = 0

C18_Witness ==
    \E p \in Procs :
        /\ GetUserDone(p)
        /\ Forged(req[p].presented)
        /\ req[p].presented.payload.type = "access"
        /\ req[p].presented.payload.exp > req[p].at
        /\ \E u \in users : req[p].presented.payload.sub = str_of_uuid(u.id)
        /\ req[p].outcome = "AccessTokenVerificationError"

C20_ClosedGetUserOutcomes ==
    \A p \in Procs :
        GetUserDone(p)
        => req[p].outcome \in {"user", "AccessTokenVerificationError",
                               "AuthenticatedUserNotFoundError"}

(***************************************************************************)
(* Claims about the callback and the store (SpecCallback)                  *)
(***************************************************************************)
\* some committed user other than the one request p built holds p's email
EmailTaken(p) ==
    \E u \in users : u.email = req[p].claim.email /\ u.id # req[p].user.id

\* C21: no two committed users share an email; and a callback that found no
\* user for its identity, ran without an infrastructure fault and whose email
\* belongs to another committed user ends in InternalTokenCreationError
\* caused by DataIntegrityError, with no users row and no linked_accounts row
\* of its own and with no token.
C21_EmailUnique ==
    /\ \A a, b \in users : a.email = b.email => a = b
    /\ \A p \in Procs :
          (CallbackDone(p) /\ CreatesUser(p) /\ ~req[p].faulted
           /\ EmailTaken(p))
          => /\ req[p].outcome = "InternalTokenCreationError"
             /\ req[p].cause = "DataIntegrityError"
             /\ \A u \in users : u.id # req[p].user.id
             /\ \A a \in accounts : a.user_id # req[p].user.id
             /\ req[p].access_token = GarbageToken
             /\ req[p].refresh_token = GarbageToken

\* a first login of identity s2 was refused because its email belongs to the
\* user of identity s1
C21_Witness ==
    \E p \in Procs :
        /\ CallbackDone(p) /\ CreatesUser(p) /\ ~req[p].faulted
        /\ EmailTaken(p)
        /\ req[p].claim.sub = "auth0|s2"
        /\ req[p].cause = "DataIntegrityError"
        /\ \E a \in accounts : /\ a.provider_user_id = "auth0|s1"
                                /\ \E u \in users :
                                      /\ u.id = a.user_id
                                      /\ u.email = req[p].claim.email
        /\ \A a \in accounts : a.provider_user_id # "auth0|s2"

(***************************************************************************)
(* Claims about the session endpoints (SpecSession)                        *)
(***************************************************************************)
\* C22: a refresh that returned tokens returned an access token that
\* verify_and_decode_access_token accepts and a refresh token that
\* verify_and_decode_refresh_token accepts, both with the sub of the
\* presented refresh token; and that sub is the sub of the refresh token the
\* chain of refreshes started from.
C22_RefreshKeepsSubject ==
    \A p \in Procs :
        (RefreshDone(p) /\ req[p].outcome = "tokens")
        => LET a == verify_and_decode_access_token(req[p].access_token,
                                                   req[p].at)
               r == verify_and_decode_refresh_token(req[p].refresh_token,
                                                    req[p].at)
           IN /\ a.err = "none" /\ a.payload.type = "access"
              /\ r.err = "none" /\ r.payload.type = "refresh"
              /\ a.payload.sub = req[p].presented.payload.sub
              /\ r.payload.sub = req[p].presented.payload.sub
              /\ req[p].presented.payload.sub = req[p].first.payload.sub

\* the second refresh of a chain that started from the refresh token issued
\* to user 2, served after the clock has moved
C22_Witness ==
    \E p \in Procs :
        /\ RefreshDone(p) /\ req[p].outcome = "tokens"
        /\ req[p].calls = 2
        /\ req[p].first = create_refresh_token([user_id |-> str_of_uuid(2)], 0)
        /\ req[p].presented # req[p].first
        /\ req[p].at > req[p].presented.payload.exp - RefreshLifetime
        /\ req[p].refresh_token.payload.sub = str_of_uuid(2)

\* a refresh token of this deployment, correctly signed, before its exp at
\* time t, carrying a sub
ValidRefreshToken(tok, t) ==
    /\ tok.wellformed
    /\ tok.sig = Sign(settings.REFRESH_TOKEN_SECRET_KEY, tok.payload)
    /\ tok.payload.exp > t
    /\ tok.payload.iss = ServiceUrl /\ tok.payload.aud = ServiceUrl
    /\ tok.payload.type = "refresh"
    /\ tok.payload.sub # NoSub

\* C23: a refresh has run no query and no write and has left the users and
\* linked_accounts tables as they were when it was called; called with a
\* valid unexpired refresh token it has returned tokens (unless jwt.encode
\* itself failed), whether a users row with the token's sub exists or not.
C23_StatelessRefresh ==
    \A p \in Procs :
        RefreshDone(p)
        => /\ req[p].queries = 0 /\ req[p].writes = 0
           /\ req[p].tx = NoTx /\ ~req[p].found
           /\ users = req[p].pre.users
           /\ accounts = req[p].pre.accounts
           /\ (ValidRefreshToken(req[p].presented, req[p].at)
               /\ ~req[p].faulted)
              => req[p].outcome = "tokens"

\* user 1 is stored, user 2 is not, and a refresh for user 2 returned tokens
C23_Witness ==
    \E p \in Procs :
        /\ RefreshDone(p) /\ req[p].outcome = "tokens"
        /\ req[p].presented.payload.sub = str_of_uuid(2)
        /\ \E u \in users : u.id = 1
        /\ \A u \in users : u.id # 2

LogoutDone(p) == pc[p] = "done" /\ req[p].kind = "logout"

\* C24: a logout has run no query and no write, has issued no token and has
\* left the users and linked_accounts tables as they were; and once a logout
\* has been served, a refresh called with a valid unexpired refresh token
\* still returns tokens and a profile request with a valid unexpired access
\* token still passes verification and reaches the repository.
C24_LogoutChangesNothing ==
    \A p \in Procs :
        /\ LogoutDone(p)
           => /\ req[p].queries = 0 /\ req[p].writes = 0
              /\ req[p].tx = NoTx
              /\ users = req[p].pre.users
              /\ accounts = req[p].pre.accounts
              /\ req[p].access_token = GarbageToken
              /\ req[p].refresh_token = GarbageToken
        /\ (LoggedOut \in completed /\ RefreshDone(p)
            /\ ValidRefreshToken(req[p].presented, req[p].at)
            /\ ~req[p].faulted)
           => req[p].outcome = "tokens"
        /\ (LoggedOut \in completed /\ req[p].kind = "get_user"
            /\ ValidAccessToken(req[p].presented, req[p].at))
           => (pc[p] = "get_user_find" \/ req[p].queries = 1)

\* after a logout served next to a stored user 1, the access token issued
\* to user 1 at the start still fetches the profile
C24_Witness ==
    \E p \in Procs :
        /\ LoggedOut \in completed
        /\ GetUserDone(p)
        /\ req[p].presented = create_access_token([user_id |-> str_of_uuid(1)],
                                                  0)
        /\ req[p].at > 0
        /\ req[p].outcome = "user"
        /\ req[p].user.id = 1

LoginDone(p) == pc[p] = "done" /\ req[p].kind = "login"

\* C27: a login has either returned the auth client's redirect, built for
\* this service's /api/v1/auth/callback URL, or raised
\* AuthRedirectGenerationError, whatever the auth client raised; it has run
\* no query and no write and has left the users and linked_accounts tables
\* as they were.
C27_LoginOutcome ==
    \A p \in Procs :
        LoginDone(p)
        => /\ \/ /\ req[p].outcome = "redirect"
                 /\ req[p].response =
                       [url |-> <<ServiceUrl, "/api/v1/auth/callback">>,
                        connection |-> "google-oauth2"]
                 /\ req[p].cause = "none"
              \/ /\ req[p].outcome = "AuthRedirectGenerationError"
                 /\ req[p].response = NoReq.response
                 /\ req[p].cause # "none"
           /\ req[p].queries = 0 /\ req[p].writes = 0
           /\ req[p].tx = NoTx
           /\ users = req[p].pre.users
           /\ accounts = req[p].pre.accounts

\* a login next to a stored user returned the redirect
C27_Witness ==
    \E p \in Procs :
        /\ LoginDone(p)
        /\ req[p].outcome = "redirect"
        /\ req[p].response.url[1] = ServiceUrl
        /\ users # {}

\* failure kinds the two internal verifiers raise
TokenVerificationErrors ==
    {"TokenExpiredError", "InvalidTokenSignatureError", "TokenDecodeError",
     "InvalidTokenTypeError"}

SignedWith(tok, key) == tok.wellformed /\ tok.sig = Sign(key, tok.payload)

\* C25: a refresh called with a token signed with the access secret has been
\* refused by verify_and_decode_refresh_token, and a profile request with a
\* token signed with the refresh secret has been refused by
\* verify_and_decode_access_token, whatever the token's type claim is; no
\* token was issued and the repository was not reached.
C25_SecretSeparation ==
    \A p \in Procs :
        /\ (req[p].kind = "refresh"
            /\ SignedWith(req[p].presented, settings.ACCESS_TOKEN_SECRET_KEY))
           => /\ pc[p] = "done"
              /\ req[p].cause \in TokenVerificationErrors
              /\ req[p].outcome = "TokenRefreshError"
              /\ req[p].access_token = GarbageToken
              /\ req[p].refresh_token = GarbageToken
        /\ (req[p].kind = "get_user"
            /\ SignedWith(req[p].presented, settings.REFRESH_TOKEN_SECRET_KEY))
           => /\ pc[p] = "done"
              /\ req[p].cause \in TokenVerificationErrors
              /\ req[p].outcome = "AccessTokenVerificationError"
              /\ req[p].queries = 0

\* the claims of an unexpired refresh token, type "refresh" included, signed
\* by a holder of the access secret, were presented for a refresh
C25_Witness ==
    \E p \in Procs :
        /\ RefreshDone(p)
        /\ SignedWith(req[p].presented, settings.ACCESS_TOKEN_SECRET_KEY)
        /\ req[p].presented.payload.type = "refresh"
        /\ req[p].presented.payload.exp > req[p].at
        /\ req[p].presented.payload.sub = str_of_uuid(1)
        /\ req[p].outcome = "TokenRefreshError"

(***************************************************************************)
(* Claims about ID-token verification in the callback (SpecCallback)       *)
(***************************************************************************)
\* the provider answered the code exchange with a token set holding an
\* id_token, so request p went on to verify_and_decode_token
ReachedVerification(p) ==
    /\ req[p].kind = "callback"
    /\ req[p].presented.exchange_ok
    /\ req[p].presented.has_id_token

\* the failure kind the taxonomy names for an ID token, "none" for a token
\* that passes every step
IdTokenDefect(resp, t) ==
    LET tok == resp.id_token
        pl == tok.payload
    IN IF ~tok.wellformed THEN "TokenDecodeError"
       ELSE IF ~resp.jwks_ok \/ tok.kid \notin JwksKids
         THEN "JWKSFetchError"
       ELSE IF tok.sig # Sign(JwksKey(tok.kid), pl)
         THEN "InvalidTokenSignatureError"
       ELSE IF pl.exp < t THEN "TokenExpiredError"
       ELSE IF pl.aud # AUTH0_AUDIENCE \/ pl.iss # auth0_issuer
         THEN "InvalidTokenSignatureError"
       ELSE IF Absent \in {pl.sub, pl.email, pl.name}
         THEN "MissingTokenClaimError"
       ELSE "none"

\* C26: verify_and_decode_token has failed with JWKSFetchError for a key
\* that cannot be resolved, TokenExpiredError for an expired ID token,
\* InvalidTokenSignatureError for a bad signature, audience or issuer,
\* TokenDecodeError for an undecodable token and MissingTokenClaimError for
\* an absent sub, email or name; an ID token without picture is accepted and
\* gives a claim, and a User, with picture None.
C26_IdTokenFailureKinds ==
    \A p \in Procs :
        ReachedVerification(p)
        => LET defect == IdTokenDefect(req[p].presented, req[p].at)
           IN /\ defect # "none" => req[p].cause = defect
              /\ (defect = "none"
                  /\ req[p].presented.id_token.payload.picture = Absent)
                 => /\ req[p].claim # NoClaim
                    /\ req[p].claim.picture = None
                    /\ CreatesUser(p) => req[p].user.picture = None

\* C28: a callback whose code exchange failed has raised
\* GetTokenFromProviderError and one whose token set holds no id_token has
\* raised MissingIdTokenError; either ended in its first step, with no
\* verified claim and no verification failure, no user looked up or built,
\* no transaction, no write and no token.
C28_EarlyFailuresIsolated ==
    \A p \in Procs :
        (req[p].kind = "callback"
         /\ (~req[p].presented.exchange_ok \/ ~req[p].presented.has_id_token))
        => /\ pc[p] = "done"
           /\ req[p].outcome = IF ~req[p].presented.exchange_ok
                                 THEN "GetTokenFromProviderError"
                                 ELSE "MissingIdTokenError"
           /\ req[p].cause \in {"ProviderAuthenticationError", "KeyError"}
           /\ req[p].claim = NoClaim
           /\ req[p].user = NoUser /\ ~req[p].found
           /\ req[p].tx = NoTx /\ req[p].writes = 0
           /\ req[p].access_token = GarbageToken
           /\ req[p].refresh_token = GarbageToken

\* a failed code exchange has ended one callback while another callback,
\* whose exchange succeeded, went on to the store
C28_Witness ==
    /\ \E p \in Procs :
          /\ CallbackDone(p)
          /\ ~req[p].presented.exchange_ok
          /\ req[p].outcome = "GetTokenFromProviderError"
    /\ \E q \in Procs :
          /\ req[q].kind = "callback"
          /\ req[q].presented.exchange_ok
          /\ req[q].user # NoUser

\* C29: a callback whose ID token fails key resolution, the signature,
\* audience, issuer or expiry check or lacks sub, email or name has ended in
\* its first step with InternalTokenCreationError, before any repository
\* call: no claim, no user looked up, built or returned, no transaction, no
\* write, no token. So a callback that is at, or past, find_by_linked_account
\* holds an ID token that passed every one of these steps.
C29_VerificationFirst ==
    \A p \in Procs :
        ReachedVerification(p)
        => /\ IdTokenDefect(req[p].presented, req[p].at) # "none"
              => /\ pc[p] = "done"
                 /\ req[p].outcome = "InternalTokenCreationError"
                 /\ req[p].claim = NoClaim
                 /\ req[p].user = NoUser /\ ~req[p].found
                 /\ req[p].tx = NoTx /\ req[p].writes = 0
                 /\ req[p].access_token = GarbageToken
                 /\ req[p].refresh_token = GarbageToken
           /\ (pc[p] \in {"find", "save_select", "save_flush", "save_commit",
                          "issue"}
               \/ req[p].user # NoUser \/ req[p].tx # NoTx)
              => /\ IdTokenDefect(req[p].presented, req[p].at) = "none"
                 /\ req[p].claim.sub = req[p].presented.id_token.payload.sub

\* next to a store that holds a user, an ID token without email was refused
C29_Witness ==
    \E p \in Procs :
        /\ CallbackDone(p) /\ ReachedVerification(p)
        /\ req[p].presented.id_token.payload.email = Absent
        /\ req[p].cause = "MissingTokenClaimError"
        /\ users # {}
        /\ \E q \in Procs : pc[q] \in {"save_select", "save_flush",
                                          "save_commit"}

\* C30: a callback that is about to create its tokens, or has returned
\* them, holds a User whose users row is committed, and the sub of both
\* tokens is the text of that row's id; a callback whose new User was not
\* committed, or was rolled back, has no token.
C30_TokensOnlyForPersistedUsers ==
    \A p \in Procs :
        req[p].kind = "callback"
        => /\ (pc[p] = "issue" \/ req[p].outcome = "tokens")
              => \E u \in users : u.id = req[p].user.id
           /\ req[p].outcome = "tokens"
              => /\ req[p].access_token.payload.sub
                      = str_of_uuid(req[p].user.id)
                 /\ req[p].refresh_token.payload.sub
                      = str_of_uuid(req[p].user.id)
                 /\ req[p].found \/ req[p].created
           /\ (CreatesUser(p) /\ \A u \in users : u.id # req[p].user.id)
              => /\ req[p].access_token = GarbageToken
                 /\ req[p].refresh_token = GarbageToken

\* one callback has returned tokens for the user it committed while the
\* commit of another callback's new user failed and left it without tokens
C30_Witness ==
    \E p, q \in Procs :
        /\ CallbackDone(p) /\ req[p].outcome = "tokens" /\ req[p].created
        /\ \E u \in users : u.id = req[p].user.id
        /\ CallbackDone(q) /\ CreatesUser(q)
        /\ req[q].tx.mode = "insert" /\ req[q].tx.inserts # {}
        /\ req[q].raw = "OperationalError"
        /\ \A u \in users : u.id # req[q].user.id
        /\ req[q].access_token = GarbageToken

(***************************************************************************)
(* Claims about issued tokens in any local zone (SpecZoned)                *)
(***************************************************************************)
\* C31: every issued token has iss = aud = the service base URL, the type
\* of the function that issued it, and exp - iat equal to the configured
\* lifetime of its kind in seconds; the access lifetime is shorter than the
\* refresh lifetime.
C31_TokenClaims ==
    /\ AccessLifetime = ACCESS_TOKEN_EXPIRATION_MINUTES * 60
    /\ RefreshLifetime = REFRESH_TOKEN_EXPIRATION_DAYS * 86400
    /\ AccessLifetime < RefreshLifetime
    /\ \A r \in tokens :
          /\ r.tok.payload.iss = ServiceUrl
          /\ r.tok.payload.aud = ServiceUrl
          /\ r.tok.payload.type = r.kind
          /\ r.tok.payload.exp - r.tok.payload.iat = Lifetime(r.kind)

(***************************************************************************)
(* Claims about tokens handed to the other verifier (SpecCross)            *)
(***************************************************************************)
\* C32: a callback whose id_token is an internally issued access or refresh
\* token has been refused by verify_and_decode_token before any repository
\* call and got no token; a refresh and a profile request presented with a
\* provider ID token have been refused by verify_and_decode_refresh_token
\* and verify_and_decode_access_token.
C32_NotInterchangeable ==
    \A p \in Procs :
        /\ (req[p].kind = "callback"
            /\ req[p].presented.id_token.alg = INTERNAL_JWT_ALGORITHM)
           => /\ pc[p] = "done"
              /\ req[p].outcome = "InternalTokenCreationError"
              /\ req[p].cause \in {"JWKSFetchError", "TokenDecodeError",
                                   "InvalidTokenSignatureError"}
              /\ req[p].claim = NoClaim /\ req[p].user = NoUser
              /\ req[p].access_token = GarbageToken
              /\ req[p].refresh_token = GarbageToken
        /\ (req[p].kind = "refresh"
            /\ req[p].presented.alg = AUTH0_ALGORITHM)
           => /\ pc[p] = "done"
              /\ req[p].cause \in TokenVerificationErrors
              /\ req[p].outcome = "TokenRefreshError"
              /\ req[p].access_token = GarbageToken
              /\ req[p].refresh_token = GarbageToken
        /\ (req[p].kind = "get_user"
            /\ req[p].presented.alg = AUTH0_ALGORITHM)
           => /\ pc[p] = "done"
              /\ req[p].cause \in TokenVerificationErrors
              /\ req[p].outcome = "AccessTokenVerificationError"
              /\ req[p].queries = 0

\* the access token issued to user 1, unexpired, came back as id_token of a
\* callback after a login with a provider ID token had created a user
C32_Witness ==
    \E p \in Procs :
        /\ CallbackDone(p)
        /\ req[p].presented.id_token
              = create_access_token([user_id |-> str_of_uuid(1)], 0)
        /\ req[p].outcome = "InternalTokenCreationError"
        /\ users # {}

(***************************************************************************)
(* C33  Read-only view                                                     *)
(***************************************************************************)
\* C33: an append to, a removal from or a clearing of the list returned by
\* User.linked_accounts leaves the aggregate's own linked accounts as they
\* were before that operation; the list is a copy, and the aggregate's
\* accounts are those that add_linked_account appended
C33_ReadOnlyView ==
    \A p \in Procs :
        (pc[p] = "edit" /\ req[p].view.ref # "none") =>
            /\ req[p].view.ref = "copy"
            /\ (req[p].view.op \in ListOps
                   /\ req[p].view.calls = req[p].calls) =>
                   req[p].user.linked_accounts = req[p].view.before
            /\ Len(req[p].user.linked_accounts) <= req[p].calls

\* the returned list was cleared while the aggregate keeps its two accounts
C33_Witness ==
    \E p \in Procs :
        /\ pc[p] = "edit"
        /\ req[p].view.op = "clear"
        /\ req[p].view.calls = req[p].calls
        /\ req[p].view.items = <<>>
        /\ Len(req[p].user.linked_accounts) = 2

(***************************************************************************)
(* C34  Session scope                                                      *)
(***************************************************************************)
\* the session calls of a scope that has been left
ScopeLeft(p) == req[p].kind = "scope" /\ pc[p] = "done"
HasCall(log, call) == \E i \in 1..Len(log) : log[i] = call

FindByIdErrors == {"DatabaseConnectionError", "UserSearchError"}

C36_NoRotation ==
    \A p \in Procs :
        RefreshDone(p) =>
            /\ (req[p].calls > 0 /\ ~req[p].faulted) =>
                  IF req[p].at < req[p].presented.payload.exp
                    THEN req[p].outcome = "tokens"
                    ELSE /\ req[p].outcome = "TokenRefreshError"
                         /\ req[p].cause = "TokenExpiredError"
            /\ req[p].outcome = "tokens" =>
                  /\ req[p].queries = 0
                  /\ req[p].refresh_token.payload.exp
                        >= req[p].presented.payload.exp
                  /\ req[p].at > req[p].presented.payload.iat =>
                        req[p].refresh_token.payload.exp
                          > req[p].presented.payload.exp
                  /\ req[p].refresh_token.payload.sub
                        = req[p].presented.payload.sub
                  /\ ValidRefreshToken(req[p].refresh_token, req[p].at)
                  /\ now < req[p].presented.payload.exp =>
                        verify_and_decode_refresh_token(req[p].presented,
                                                        now).err = "none"

\* the token that opened the session was exchanged, presented again later
\* and exchanged again, for a refresh token that outlives it
C36_Witness ==
    \E p \in Procs :
        /\ RefreshDone(p)
        /\ req[p].reused
        /\ req[p].presented = req[p].first
        /\ req[p].at > req[p].first.payload.iat
        /\ req[p].outcome = "tokens"
        /\ req[p].refresh_token.payload.exp > req[p].first.payload.exp

(***************************************************************************)
(* C37  Save / find round trip (SpecSave)                                  *)
(***************************************************************************)
\* a finder's answer is a User equal to user in id, email, name, picture and
\* in its set of linked-account keys
ReturnsSame(r, user) ==
    /\ r.exc = "none"
    /\ r.found
    /\ r.user.id = user.id
    /\ r.user.email = user.email
    /\ r.user.name = user.name
    /\ r.user.picture = user.picture
    /\ KeysOfUser(r.user) = KeysOfUser(user)

SaveReturned(p) ==
    pc[p] = "done" /\ req[p].kind = "save" /\ req[p].outcome = "saved"

\* C37: once save(user) has returned, find_by_id(user.id) and
\* find_by_linked_account(k) for every linked-account key k of user each
\* return a User with user's id, email, name, picture and set of keys, and
\* find_by_linked_account for a key that no stored account carries returns
\* None.
C37_SaveFindRoundTrip ==
    \A p \in Procs :
        SaveReturned(p) =>
            /\ ReturnsSame(find_by_id(req[p].user.id, "none"), req[p].user)
            /\ \A k \in KeysOfUser(req[p].user) :
                  ReturnsSame(find_by_linked_account(k[1], k[2], "none"),
                              req[p].user)
            /\ \A k \in AccountKeys :
                  (~\E a \in accounts : KeyOf(a) = k) =>
                      LET r == find_by_linked_account(k[1], k[2], "none")
                      IN r.exc = "none" /\ ~r.found

(***************************************************************************)
(* C38  Single container (SpecContainer)                                   *)
(***************************************************************************)
\* C38: all calls of create_container and get_container answered between
\* the same two resets returned the same Container; a Container has the
\* settings it was built with in every answer, so a settings_override
\* passed once a Container exists changes nothing; calls answered after a
\* reset returned a Container that no earlier call returned; and at most
\* one Container is installed at any time, the one _container refers to.
C38_SingleContainer ==
    /\ \A a, b \in di.returned :
          /\ a.resets = b.resets => a.id = b.id
          /\ a.id = b.id => a.settings = b.settings
          /\ a.resets < b.resets => a.id < b.id
    /\ \A a \in di.returned :
          /\ a.id \in 1..Len(di.built)
          /\ a.settings = di.built[a.id].settings
          /\ (a.settings = "settings_override") =>
                \E b \in di.returned :
                    /\ b.id = a.id
                    /\ b.fn = "create_container"
                    /\ b.settings_override = "settings_override"
    /\ \A i \in 1..Len(di.built) :
          di.built[i].installed <=> i = di._container
    /\ Cardinality({i \in 1..Len(di.built) : di.built[i].installed}) <= 1

\* a Container built with the default settings was returned to a later call
\* that passed an override, and after a reset a second Container was built
C38_Witness ==
    \E a, b, c \in di.returned :
        /\ a.resets = 0 /\ b.resets = 0 /\ c.resets = 1
        /\ a.settings_override = None
        /\ b.settings_override = "settings_override"
        /\ a.id = b.id /\ b.settings = "settings"
        /\ c.id # a.id
        /\ di.built[a.id].closed

====
